---------------------------- MODULE Spec2Model ----------------------------
(***************************************************************************)
(* A model of the read/write stack of cyverse/irodsfs-common (package io): *)
(*   - SyncBufferedWriter   (src/io/sync_buffered_writer.go)               *)
(*   - AsyncWriter          (src/unnamed/part_009)                         *)
(*   - AsyncCacheThroughReader, FileBlockStore                             *)
(*                          (src/io/async_cache_through_reader.go)         *)
(*   - FileBlockTransfer, FileBlockTransferMap (src/unnamed/part_002)      *)
(* Each component has its own variables and its own specification; the     *)
(* variables of the components a specification does not exercise stay at   *)
(* their initial values.                                                   *)
(***************************************************************************)
EXTENDS Integers, Sequences, FiniteSets, TLC

VARIABLES
    \* ---- SyncBufferedWriter ----
    bwBufferSize,   \* writer.bufferSize (the high-water mark)
    bwBuffer,       \* writer.buffer: the bytes buffered so far
    bwStart,        \* writer.currentBufferStartOffset
    bwInner,        \* the calls received by baseWriter.WriteAt, in order
    bwCalls,        \* history: the WriteAt calls made on the buffered writer
    bwLast,         \* history: the last operation and whether it returned an error
    bwErrSeen,      \* history: some baseWriter call has returned an error
    bwContig,       \* history: the calls so far form one contiguous run, not yet flushed
    bwOps,          \* history: the number of operations called so far
    bwFaulty,       \* environment: may the inner writer return errors?
    \* ---- AsyncWriter ----
    awQueue,        \* writer.pendingWriteBlock: the blocks in the channel
    awWg,           \* writer.asyncWriteBlockWaiter: the wait-group counter
    awLastError,    \* writer.lastError (0: nil)
    awWorker,       \* the goroutine of startAsyncWriter: where it is, its block
    awCaller,       \* the calling goroutine: where it is in WriteAt or Flush
    awCallerBuf,    \* the caller's own buffer, handed to WriteAt as data
    awInner,        \* the calls received by baseWriter.WriteAt, in order
    awPushed,       \* history: the blocks pushed onto the channel, as submitted
    awDone,         \* history: the number of asyncWriteBlockWaiter.Done() calls
    awLast,         \* history: the last call returned and its result
    awStartErr,     \* history: lastError when the current WriteAt call began
    awOps,          \* history: the number of calls made so far
    \* ---- AsyncCacheThroughReader ----
    rdSize,         \* reader.size: the size of the remote file
    rdNumReaders,   \* len(reader.baseReaders)
    rdCons,         \* the goroutines calling ReadAt: where each is, its locals
    rdTransfers,    \* every FileBlockTransfer created so far, in creation order
    rdMap,          \* reader.transferMap.transfers: block id -> transfer (0: none)
    rdRequests,     \* reader.blockRequests: the channel's content, and is it closed
    rdAvail,        \* reader.availableBaseReaders: content, and is it closed
    rdDisp,         \* the goroutine of asyncRequestHandler
    rdWorkers,      \* the goroutines of startAsyncTransfer, one per transfer
    rdStore,        \* reader.blockStore.lruCache: the blocks, most recently used first
    rdPrefetched,   \* reader.prefetcher.prefetchMap (its keys)
    rdTerminate,    \* reader.terminate
    rdLastError,    \* reader.lastError
    rdRel,          \* the goroutine calling Release: where it is
    rdAtRelease,    \* history: the transfers that existed when Release was called
    rdDelivered,    \* history: the bytes the sequential caller has been given
    rdEnv,          \* environment: how ReadAt is called, may base readers fail
    rdPass,         \* history: which reader of the shared cache this is, and
                    \* what the one before it delivered and left in the cache
    \* ---- DiskCacheStore ----
    dcIndex,        \* store.cache: the entries, most recently used first
    dcGroups,       \* store.groups: group -> the keys of its bucket
    dcFiles,        \* the payload files under rootPath: key -> content
    dcProcs,        \* the goroutines inside CreateEntry
    dcAccess,       \* history: key -> when it was last created or got
    dcClock,        \* history: the number of accesses so far
    dcLast,         \* history: the last operation and what it found
    dcOps,          \* history: the number of operations begun
    dcEnv,          \* the caps of the store, the bound on the operations
    \* ---- RAMBuffer ----
    rbSizeCap,      \* buffer.sizeCap
    rbGroups,       \* every RAMBufferEntryGroup created so far, in creation order
    rbGroupMap,     \* buffer.entryGroupMap: name -> group (0: none)
    rbProcs,        \* the goroutines inside CreateEntry: where each is, its arguments
    rbLast,         \* history: the last operation and its result
    rbReplaced,     \* history: CreateEntryGroup has replaced a group of a name in use
    rbOps,          \* history: the number of operations begun
    \* ---- InodeManager ----
    inoVPathInc,    \* manager.currentVPathEntryIDInc
    inoOverlayInc,  \* manager.currentOverlayEntryIDInc
    inoVPathMap,    \* manager.vpathEntryIDMap: path -> inode (NoInode: none)
    inoOverlayMap,  \* manager.overlayEntryIDMap, or NilMap
    inoCalls,       \* history: the calls made so far and what each returned
    \* ---- FileBlockHelper ----
    fbCall,         \* the last call of a helper method: its arguments and result
    \* ---- VPathManager ----
    vpMappings,     \* manager.pathMappings
    vpRemote,       \* the remote store: what Stat and MakeDir find for a path
    vpObjs,         \* every VPathEntry made so far, in creation order
    vpEntries,      \* manager.entries: vpath -> entry (0: none)
    vpNext,         \* build(): the index of the mapping to build next
    vpResult,       \* build(): still running, or what it returned
    vpLast,         \* history: what the last buildOne met and did
    \* ---- Prefetcher ----
    pfBlockSize,    \* prefetcher.blockHelper.blockSize
    pfSize,         \* the size of the file, as the callers pass it
    pfMap,          \* prefetcher.prefetchMap (its keys)
    pfProcs,        \* the goroutines inside Determine: where each is, its locals
    pfCalls,        \* history: the calls that returned, in the order of their
                    \* returns, and what each returned
    pfOps,          \* history: the number of calls begun
    \* ---- AsyncWriter with a RAMBuffer (src/io/async_writer.go) ----
    owEntries,      \* the entry group of the writer: key -> data (NoData: none)
    owQueue,        \* writer.writeQueue: the keys in the channel
    owTasks,        \* writer.writeWaitTasks: the wait-group counter
    owErrors,       \* len(writer.pendingErrors)
    owInner,        \* the calls received by fileHandle.WriteAt, in order
    owWorker,       \* the goroutine of backgroundWriteTask: where it is, its key
    owCaller,       \* the calling goroutine: where it is in WriteAt or Flush
    owQueued,       \* history: the number of keys sent to writeQueue
    owDone,         \* history: the number of writeWaitTasks.Done() calls
    owOps,          \* history: the number of calls made so far
    owFaulty        \* environment: may fileHandle.WriteAt return errors?

bwVars == <<bwBufferSize, bwBuffer, bwStart, bwInner, bwCalls, bwLast, bwErrSeen,
           bwContig, bwOps, bwFaulty>>

awVars == <<awQueue, awWg, awLastError, awWorker, awCaller, awCallerBuf, awInner,
           awPushed, awDone, awLast, awStartErr, awOps>>

rdVars == <<rdSize, rdNumReaders, rdCons, rdTransfers, rdMap, rdRequests, rdAvail,
           rdDisp, rdWorkers, rdStore, rdPrefetched, rdTerminate, rdLastError, rdRel,
           rdAtRelease, rdDelivered, rdEnv, rdPass>>

dcVars == <<dcIndex, dcGroups, dcFiles, dcProcs, dcAccess, dcClock, dcLast, dcOps, dcEnv>>

rbVars == <<rbSizeCap, rbGroups, rbGroupMap, rbProcs, rbLast, rbReplaced, rbOps>>

\* the components of the block reader/writer stack, and the other components
coreVars == <<bwVars, awVars, rdVars, dcVars>>

inoVars == <<inoVPathInc, inoOverlayInc, inoVPathMap, inoOverlayMap, inoCalls>>

fbVars == <<fbCall>>

vpVars == <<vpMappings, vpRemote, vpObjs, vpEntries, vpNext, vpResult, vpLast>>

pfVars == <<pfBlockSize, pfSize, pfMap, pfProcs, pfCalls, pfOps>>

owVars == <<owEntries, owQueue, owTasks, owErrors, owInner, owWorker, owCaller,
           owQueued, owDone, owOps, owFaulty>>

auxVars == <<rbVars, inoVars, fbVars, vpVars, pfVars, owVars>>

\* what the operations of one of these components leave alone
rbOthers == <<coreVars, inoVars, fbVars, vpVars, pfVars, owVars>>

inoOthers == <<coreVars, rbVars, fbVars, vpVars, pfVars, owVars>>

fbOthers == <<coreVars, rbVars, inoVars, vpVars, pfVars, owVars>>

vpOthers == <<coreVars, rbVars, fbVars, pfVars, owVars>>

pfOthers == <<coreVars, rbVars, inoVars, fbVars, vpVars, owVars>>

owOthers == <<coreVars, rbVars, inoVars, fbVars, vpVars, pfVars>>

vars == <<coreVars, auxVars>>

----------------------------------------------------------------------------
(* Generic helpers                                                         *)

Min(a, b) == IF a <= b THEN a ELSE b

Max(a, b) == IF a >= b THEN a ELSE b

\* the sequence <<v, v, ..., v>> of length n
Fill(v, n) == [i \in 1..n |-> v]

\* ceil(a / b) for a >= 0, b > 0
CeilDiv(a, b) == (a + b - 1) \div b

\* the (offset, byte) pairs written by a log of write calls, in the order written
RECURSIVE Flat(_)
Flat(log) ==
    IF log = <<>> THEN <<>>
    ELSE [i \in 1..Len(Head(log).data) |->
             <<Head(log).offset + i - 1, Head(log).data[i]>>] \o Flat(Tail(log))

\* the file content a log of write calls produces: offset -> byte (0: never written)
RECURSIVE FileOf(_, _)
FileOf(log, span) ==
    IF log = <<>> THEN [o \in span |-> 0]
    ELSE LET last == log[Len(log)]
             rest == FileOf(SubSeq(log, 1, Len(log) - 1), span)
         IN  [o \in span |->
                 IF o >= last.offset /\ o < last.offset + Len(last.data)
                 THEN last.data[o - last.offset + 1] ELSE rest[o]]

\* the sum of the data lengths of a log of write calls
RECURSIVE TotalLen(_)
TotalLen(log) == IF log = <<>> THEN 0 ELSE Len(Head(log).data) + TotalLen(Tail(log))

----------------------------------------------------------------------------
(* SyncBufferedWriter                                                      *)

\* bounds of the buffered-writer model
BwMaxOps == 4
BwErrMaxOps == 3
BwMaxOffset == 3
BwMaxLen == 2
BwMaxBufferSize == 3

\* spillBuffer: hand the buffer to baseWriter.WriteAt; on an error the buffer
\* and the start offset are kept, otherwise the buffer is replaced by an empty
\* one; currentBufferStartOffset is reset in both non-error paths.
spillBufferStartWrong(buf, start, inner, fail) ==
    IF Len(buf) > 0
    THEN IF fail
         THEN [buffer |-> buf, start |-> start, err |-> TRUE,
               inner |-> Append(inner, [offset |-> 0, data |-> buf, ok |-> FALSE])]
         ELSE [buffer |-> <<>>, start |-> 0, err |-> FALSE,
               inner |-> Append(inner, [offset |-> 0, data |-> buf, ok |-> TRUE])]
    ELSE [buffer |-> buf, start |-> 0, err |-> FALSE, inner |-> inner]

spillBuffer(buf, start, inner, fail) ==
    IF Len(buf) > 0
    THEN IF fail
         THEN [buffer |-> buf, start |-> start, err |-> TRUE,
               inner |-> Append(inner, [offset |-> start, data |-> buf, ok |-> FALSE])]
         ELSE [buffer |-> <<>>, start |-> 0, err |-> FALSE,
               inner |-> Append(inner, [offset |-> start, data |-> buf, ok |-> TRUE])]
    ELSE [buffer |-> buf, start |-> 0, err |-> FALSE, inner |-> inner]

\* The first half of WriteAt: put data into the buffer, spilling the buffer
\* first when data does not continue it.
bwPutData(data, offset, fail1) ==
    IF Len(bwBuffer) > 0
    THEN IF bwStart + Len(bwBuffer) # offset
         THEN LET s == spillBuffer(bwBuffer, bwStart, bwInner, fail1)
              IN  IF s.err
                  THEN s
                  ELSE [s EXCEPT !.buffer = s.buffer \o data, !.start = offset]
         ELSE [buffer |-> bwBuffer \o data, start |-> bwStart, err |-> FALSE,
               inner |-> bwInner]
    ELSE [buffer |-> bwBuffer \o data, start |-> offset, err |-> FALSE,
          inner |-> bwInner]

\* The second half of WriteAt: spill when the buffer has reached bufferSize.
bwHighWaterAlways(p, fail2) ==
    IF ~p.err /\ Len(p.buffer) >= 1
    THEN spillBuffer(p.buffer, p.start, p.inner, fail2)
    ELSE p

bwHighWater(p, fail2) ==
    IF ~p.err /\ Len(p.buffer) >= bwBufferSize
    THEN spillBuffer(p.buffer, p.start, p.inner, fail2)
    ELSE p

\* history: does a call at offset continue the run made by the earlier calls?
bwContinues(offset) ==
    \/ bwCalls = <<>>
    \/ /\ bwContig
       /\ bwLast.op = "write"
       /\ LET c == bwCalls[Len(bwCalls)] IN c.offset + Len(c.data) = offset

\* SyncBufferedWriter.WriteAt(data, offset); fail1 and fail2 are the outcomes of
\* the (at most two) baseWriter.WriteAt calls it makes.
BwWriteAt(len, offset, fail1, fail2) ==
    /\ bwOps < (IF bwFaulty THEN BwErrMaxOps ELSE BwMaxOps)
    /\ bwOps' = bwOps + 1
    /\ LET data == Fill(Len(bwCalls) + 1, len)
       IN  IF len = 0 \/ offset < 0
           THEN UNCHANGED <<bwBuffer, bwStart, bwInner, bwCalls, bwLast, bwErrSeen,
                            bwContig>>
           ELSE LET r == bwHighWater(bwPutData(data, offset, fail1), fail2)
                IN  /\ bwBuffer' = r.buffer
                    /\ bwStart' = r.start
                    /\ bwInner' = r.inner
                    /\ bwCalls' = Append(bwCalls, [offset |-> offset, data |-> data,
                                                   err |-> r.err])
                    /\ bwLast' = [op |-> "write", err |-> r.err]
                    /\ bwErrSeen' = (bwErrSeen \/ r.err)
                    /\ bwContig' = bwContinues(offset)
    /\ UNCHANGED <<bwBufferSize, bwFaulty>>
    /\ UNCHANGED <<awVars, rdVars, dcVars, auxVars>>

\* SyncBufferedWriter.Flush(): spill the buffer, then baseWriter.Flush()
\* (failFlush is the outcome of baseWriter.Flush).
BwFlush(fail, failFlush) ==
    /\ bwOps < (IF bwFaulty THEN BwErrMaxOps ELSE BwMaxOps)
    /\ bwOps' = bwOps + 1
    /\ LET s == spillBuffer(bwBuffer, bwStart, bwInner, fail)
           err == s.err \/ failFlush
       IN  /\ bwBuffer' = s.buffer
           /\ bwStart' = s.start
           /\ bwInner' = s.inner
           /\ bwLast' = [op |-> "flush", err |-> err]
           /\ bwErrSeen' = (bwErrSeen \/ err)
    /\ UNCHANGED <<bwBufferSize, bwCalls, bwContig, bwFaulty>>
    /\ UNCHANGED <<awVars, rdVars, dcVars, auxVars>>

BwInitState(faulty, sizes) ==
    /\ bwFaulty = faulty
    /\ bwBufferSize \in sizes
    /\ bwBuffer = <<>>
    /\ bwStart = 0
    /\ bwInner = <<>>
    /\ bwCalls = <<>>
    /\ bwLast = [op |-> "none", err |-> FALSE]
    /\ bwErrSeen = FALSE
    /\ bwContig = TRUE
    /\ bwOps = 0

\* the outcomes the inner writer's calls can have
BwFailures == IF bwFaulty THEN BOOLEAN ELSE {FALSE}

BwWrite ==
    \E len \in 0..BwMaxLen, offset \in 0..BwMaxOffset, fail1, fail2 \in BwFailures :
        BwWriteAt(len, offset, fail1, fail2)

BwDoFlush == \E fail, failFlush \in BwFailures : BwFlush(fail, failFlush)

----------------------------------------------------------------------------
(* AsyncWriter                                                             *)

\* bounds of the async-writer model; AwQueueCap stands for the capacity of
\* pendingWriteBlock (10 in NewAsyncWriter), scaled down so that a full
\* channel is reached
AwMaxOps == 5
AwQueueCap == 2

\* the offsets and the data lengths the caller uses
AwOffsets == {0, 1}
AwLens == {0, 1}

\* the error Flush returns when baseWriter.Flush() fails
AwFlushError == -1

NoBlock == [offset |-> -1, buffer |-> <<>>]

\* the bytes the worker hands to baseWriter.WriteAt: the block's own buffer
awBlockBytesAliased(block) == SubSeq(awCallerBuf, 1, Min(Len(awCallerBuf), Len(block.buffer)))

awBlockBytes(block) == block.buffer

\* for block := range pendingWriteBlock: the channel hands over its oldest block
awReceiveNewest(queue) ==
    [block |-> queue[Len(queue)], rest |-> SubSeq(queue, 1, Len(queue) - 1)]

awReceive(queue) == [block |-> Head(queue), rest |-> Tail(queue)]

\* the goroutine's loop head: receive a block, then look at lastError
AwWorkerRecvNoCheck ==
    /\ awWorker.pc = "recv"
    /\ awQueue # <<>>
    /\ awQueue' = awReceive(awQueue).rest
    /\ awWorker' = [pc |-> "write", block |-> awReceive(awQueue).block]
    /\ UNCHANGED <<awWg, awLastError, awCaller, awCallerBuf, awInner, awPushed, awDone,
                   awLast, awStartErr, awOps>>
    /\ UNCHANGED <<bwVars, rdVars, dcVars, auxVars>>

AwWorkerRecv ==
    /\ awWorker.pc = "recv"
    /\ awQueue # <<>>
    /\ awQueue' = awReceive(awQueue).rest
    /\ awWorker' = [pc |-> IF awLastError # 0 THEN "skip" ELSE "write",
                    block |-> awReceive(awQueue).block]
    /\ UNCHANGED <<awWg, awLastError, awCaller, awCallerBuf, awInner, awPushed, awDone,
                   awLast, awStartErr, awOps>>
    /\ UNCHANGED <<bwVars, rdVars, dcVars, auxVars>>

\* lastError is set: the block is skipped, Done() is called
awSkipNoDone == awWg

awSkipDone == awWg - 1

AwWorkerSkip ==
    /\ awWorker.pc = "skip"
    /\ awWg' = awSkipDone
    /\ awDone' = awDone + (awWg - awWg')
    /\ awWorker' = [pc |-> "recv", block |-> NoBlock]
    /\ UNCHANGED <<awQueue, awLastError, awCaller, awCallerBuf, awInner, awPushed,
                   awLast, awStartErr, awOps>>
    /\ UNCHANGED <<bwVars, rdVars, dcVars, auxVars>>

\* baseWriter.WriteAt(block.buffer.Bytes(), block.offset) is called
AwWorkerWrite ==
    /\ awWorker.pc = "write"
    /\ IF Len(awWorker.block.buffer) > 0
       THEN /\ awInner' = Append(awInner, [offset |-> awWorker.block.offset,
                                            data |-> awBlockBytes(awWorker.block),
                                            st |-> "started"])
            /\ awWorker' = [awWorker EXCEPT !.pc = "writing"]
       ELSE /\ awInner' = awInner
            /\ awWorker' = [awWorker EXCEPT !.pc = "done"]
    /\ UNCHANGED <<awQueue, awWg, awLastError, awCaller, awCallerBuf, awPushed, awDone,
                   awLast, awStartErr, awOps>>
    /\ UNCHANGED <<bwVars, rdVars, dcVars, auxVars>>

\* baseWriter.WriteAt returns, with an error or without
AwWorkerWritten(fail) ==
    /\ awWorker.pc = "writing"
    /\ awInner' = [awInner EXCEPT ![Len(awInner)].st = IF fail THEN "failed" ELSE "ok"]
    /\ awWorker' = [awWorker EXCEPT !.pc = IF fail THEN "seterr" ELSE "done"]
    /\ UNCHANGED <<awQueue, awWg, awLastError, awCaller, awCallerBuf, awPushed, awDone,
                   awLast, awStartErr, awOps>>
    /\ UNCHANGED <<bwVars, rdVars, dcVars, auxVars>>

\* the write failed: lastError is set (the error is named by the number of
\* the inner call that failed)
AwWorkerSetErr ==
    /\ awWorker.pc = "seterr"
    /\ awLastError' = Len(awInner)
    /\ awWorker' = [awWorker EXCEPT !.pc = "done"]
    /\ UNCHANGED <<awQueue, awWg, awCaller, awCallerBuf, awInner, awPushed, awDone,
                   awLast, awStartErr, awOps>>
    /\ UNCHANGED <<bwVars, rdVars, dcVars, auxVars>>

\* the end of the loop body: Done()
AwWorkerDone ==
    /\ awWorker.pc = "done"
    /\ awWg' = awWg - 1
    /\ awDone' = awDone + 1
    /\ awWorker' = [pc |-> "recv", block |-> NoBlock]
    /\ UNCHANGED <<awQueue, awLastError, awCaller, awCallerBuf, awInner, awPushed,
                   awLast, awStartErr, awOps>>
    /\ UNCHANGED <<bwVars, rdVars, dcVars, auxVars>>

AwWorker ==
    \/ AwWorkerRecv
    \/ AwWorkerSkip
    \/ AwWorkerWrite
    \/ \E fail \in BOOLEAN : AwWorkerWritten(fail)
    \/ AwWorkerSetErr
    \/ AwWorkerDone

\* WriteAt(data, offset), up to the first look at lastError; the caller has
\* filled its buffer with data (overwriting what an earlier call was given)
AwWriteAtBegin(len, offset) ==
    /\ awCaller.pc = "idle"
    /\ awOps < AwMaxOps
    /\ awOps' = awOps + 1
    /\ awCallerBuf' = Fill(awOps + 1, len)
    /\ awStartErr' = awLastError
    /\ IF len = 0 \/ offset < 0
       THEN /\ awLast' = [op |-> "write", len |-> len, n |-> 0, err |-> 0]
            /\ UNCHANGED awCaller
       ELSE IF awLastError # 0
            THEN /\ awLast' = [op |-> "write", len |-> len, n |-> 0, err |-> awLastError]
                 /\ UNCHANGED awCaller
            ELSE /\ awCaller' = [pc |-> "add",
                                 block |-> [offset |-> offset, buffer |-> awCallerBuf']]
                 /\ awLast' = [op |-> "none", len |-> 0, n |-> 0, err |-> 0]
    /\ UNCHANGED <<awQueue, awWg, awLastError, awWorker, awInner, awPushed, awDone>>
    /\ UNCHANGED <<bwVars, rdVars, dcVars, auxVars>>

\* asyncWriteBlockWaiter.Add(1)
AwWriteAtAdd ==
    /\ awCaller.pc = "add"
    /\ awWg' = awWg + 1
    /\ awCaller' = [awCaller EXCEPT !.pc = "send"]
    /\ UNCHANGED <<awQueue, awLastError, awWorker, awCallerBuf, awInner, awPushed,
                   awDone, awLast, awStartErr, awOps>>
    /\ UNCHANGED <<bwVars, rdVars, dcVars, auxVars>>

\* pendingWriteBlock <- &block, which waits while the channel is full
AwWriteAtSend ==
    /\ awCaller.pc = "send"
    /\ Len(awQueue) < AwQueueCap
    /\ awQueue' = Append(awQueue, awCaller.block)
    /\ awPushed' = Append(awPushed, [offset |-> awCaller.block.offset,
                                      data |-> awCaller.block.buffer])
    /\ awCaller' = [awCaller EXCEPT !.pc = "recheck"]
    /\ UNCHANGED <<awWg, awLastError, awWorker, awCallerBuf, awInner, awDone, awLast,
                   awStartErr, awOps>>
    /\ UNCHANGED <<bwVars, rdVars, dcVars, auxVars>>

\* the second look at lastError, and the return
AwWriteAtRecheck ==
    /\ awCaller.pc = "recheck"
    /\ awLast' = [op |-> "write", len |-> Len(awCaller.block.buffer),
                  n |-> IF awLastError # 0 THEN 0 ELSE Len(awCaller.block.buffer),
                  err |-> awLastError]
    /\ awCaller' = [pc |-> "idle", block |-> NoBlock]
    /\ UNCHANGED <<awQueue, awWg, awLastError, awWorker, awCallerBuf, awInner, awPushed,
                   awDone, awStartErr, awOps>>
    /\ UNCHANGED <<bwVars, rdVars, dcVars, auxVars>>

\* Flush() is called
AwFlushBegin ==
    /\ awCaller.pc = "idle"
    /\ awOps < AwMaxOps
    /\ awOps' = awOps + 1
    /\ awCaller' = [awCaller EXCEPT !.pc = "flushwait"]
    /\ awLast' = [op |-> "none", len |-> 0, n |-> 0, err |-> 0]
    /\ UNCHANGED <<awQueue, awWg, awLastError, awWorker, awCallerBuf, awInner, awPushed,
                   awDone, awStartErr>>
    /\ UNCHANGED <<bwVars, rdVars, dcVars, auxVars>>

\* asyncWriteBlockWaiter.Wait() returns
AwFlushWait ==
    /\ awCaller.pc = "flushwait"
    /\ awWg = 0
    /\ awCaller' = [awCaller EXCEPT !.pc = "flushinner"]
    /\ UNCHANGED <<awQueue, awWg, awLastError, awWorker, awCallerBuf, awInner, awPushed,
                   awDone, awLast, awStartErr, awOps>>
    /\ UNCHANGED <<bwVars, rdVars, dcVars, auxVars>>

\* baseWriter.Flush(), whose error is returned; otherwise lastError is
AwFlushInner(fail) ==
    /\ awCaller.pc = "flushinner"
    /\ awLast' = [op |-> "flush", len |-> 0, n |-> 0,
                  err |-> IF fail THEN AwFlushError ELSE awLastError]
    /\ awCaller' = [pc |-> "idle", block |-> NoBlock]
    /\ UNCHANGED <<awQueue, awWg, awLastError, awWorker, awCallerBuf, awInner, awPushed,
                   awDone, awStartErr, awOps>>
    /\ UNCHANGED <<bwVars, rdVars, dcVars, auxVars>>

AwWriteAt ==
    \/ \E len \in AwLens, offset \in AwOffsets : AwWriteAtBegin(len, offset)
    \/ AwWriteAtAdd
    \/ AwWriteAtSend
    \/ AwWriteAtRecheck

AwFlush ==
    \/ AwFlushBegin
    \/ AwFlushWait
    \/ \E fail \in BOOLEAN : AwFlushInner(fail)

AwInitState ==
    /\ awQueue = <<>>
    /\ awWg = 0
    /\ awLastError = 0
    /\ awWorker = [pc |-> "recv", block |-> NoBlock]
    /\ awCaller = [pc |-> "idle", block |-> NoBlock]
    /\ awCallerBuf = <<>>
    /\ awInner = <<>>
    /\ awPushed = <<>>
    /\ awDone = 0
    /\ awLast = [op |-> "none", len |-> 0, n |-> 0, err |-> 0]
    /\ awStartErr = 0
    /\ awOps = 0

----------------------------------------------------------------------------
(* DiskCacheStore (src/io/cache/disk_cache_store.go) on golang-lru v0.5.4  *)

\* the operations begun; the keys, the groups and the lengths of the data
DcMaxOps == 4
DcKeySet == {1, 2, 3}
DcGroupSet == {1, 2}
DcLens == {1, 2}

\* NewDiskCacheStore(sizeCap, entrySizeCap, rootPath) with sizeCap = 2 and
\* entrySizeCap = 1: two entries of at most one byte
DcEntrySizeCap == 1
DcEntryNumberCap == 2

NoFile == <<-1>>

NoEntry == [key |-> -1, group |-> -1, data |-> <<>>]

\* the store as the three things its operations change together
DcState(index, groups, files) == [index |-> index, groups |-> groups, files |-> files]

DcKeysOf(index) == {index[i].key : i \in 1..Len(index)}

RECURSIVE DcSelect(_, _)
DcSelect(index, key) ==
    IF index = <<>> THEN <<>>
    ELSE IF Head(index).key = key THEN <<Head(index)>>
    ELSE DcSelect(Tail(index), key)

RECURSIVE DcWithout(_, _)
DcWithout(index, key) ==
    IF index = <<>> THEN <<>>
    ELSE IF Head(index).key = key THEN DcWithout(Tail(index), key)
    ELSE <<Head(index)>> \o DcWithout(Tail(index), key)

\* onEvicted(key, entry): the payload file is deleted and the key leaves the
\* bucket of the entry's group (lines 324-336)
onEvicted(st, entry) ==
    DcState(st.index,
            [st.groups EXCEPT ![entry.group] = @ \ {entry.key}],
            [st.files EXCEPT ![entry.key] = NoFile])

\* cache.Remove(key): the entry leaves the index and onEvicted is called
DcRemove(st, key) ==
    IF key \in DcKeysOf(st.index)
    THEN onEvicted(DcState(DcWithout(st.index, key), st.groups, st.files),
                   Head(DcSelect(st.index, key)))
    ELSE st

\* a cache.Get that leaves the entry where it is in the list
DcTouchNot(index, key) == index

\* cache.Get(key) moves the entry to the front of the list
DcTouch(index, key) == DcSelect(index, key) \o DcWithout(index, key)

\* cache.Add(key, entry): an entry of the key is replaced and moved to the
\* front without a callback; a new entry is pushed to the front and, when the
\* list is longer than numberCap, the entry at the back is removed
DcAdd(st, entry, numberCap) ==
    LET pushed == DcState(<<entry>> \o DcWithout(st.index, entry.key),
                          st.groups, st.files)
    IN  IF entry.key \notin DcKeysOf(st.index) /\ Len(pushed.index) > numberCap
        THEN onEvicted(DcState(SubSeq(pushed.index, 1, Len(pushed.index) - 1),
                               pushed.groups, pushed.files),
                       pushed.index[Len(pushed.index)])
        ELSE pushed

\* the locked part of CreateEntry: cache.Add and the bucket of the group
\* (lines 280-292)
DcCreateLocked(st, entry, numberCap) ==
    LET added == DcAdd(st, entry, numberCap)
    IN  DcState(added.index,
                [added.groups EXCEPT ![entry.group] = @ \cup {entry.key}],
                added.files)

\* CreateEntry when no other operation of the store comes between the write
\* of the file by NewDiskCacheEntry and cache.Add (lines 273-292)
DcCreate(st, key, group, data, numberCap) ==
    DcCreateLocked([st EXCEPT !.files = [@ EXCEPT ![key] = data]],
                   [key |-> key, group |-> group, data |-> data], numberCap)

\* DeleteAllEntriesForGroup(group): cache.Remove of every key of the bucket
\* (lines 226-235)
RECURSIVE DcRemoveAll(_, _)
DcRemoveAll(st, keys) ==
    IF keys = {} THEN st
    ELSE LET key == CHOOSE k \in keys : TRUE
         IN  DcRemoveAll(DcRemove(st, key), keys \ {key})

DcDeleteGroup(st, group) == DcRemoveAll(st, st.groups[group])

\* the key whose last access is the oldest among the entries of the index
DcOldest(index, access) ==
    CHOOSE k \in DcKeysOf(index) : \A j \in DcKeysOf(index) : access[k] <= access[j]

DcStore == DcState(dcIndex, dcGroups, dcFiles)

DcNoOp == [op |-> "none", key |-> -1, group |-> -1, present |-> FALSE, full |-> FALSE,
           evicted |-> {}, oldest |-> -1, before |-> <<>>, found |-> NoEntry]

\* CreateEntry(key, group, data) up to the lock: the check of the size and
\* NewDiskCacheEntry, which writes the payload file (lines 268-277, 24-43)
DcCreateEntryBegin(p, key, group, len) ==
    /\ dcProcs[p].pc = "idle"
    /\ dcOps < dcEnv.maxOps
    /\ dcOps' = dcOps + 1
    /\ IF dcEnv.entrySizeCap < len
       THEN /\ dcLast' = [DcNoOp EXCEPT !.op = "refused", !.key = key, !.group = group]
            /\ UNCHANGED <<dcFiles, dcProcs>>
       ELSE /\ dcFiles' = [dcFiles EXCEPT ![key] = Fill(dcOps + 1, len)]
            /\ dcProcs' = [dcProcs EXCEPT ![p] =
                    [pc |-> "add", entry |-> [key |-> key, group |-> group,
                                              data |-> Fill(dcOps + 1, len)]]]
            /\ dcLast' = [DcNoOp EXCEPT !.op = "write", !.key = key, !.group = group]
    /\ UNCHANGED <<dcIndex, dcGroups, dcAccess, dcClock, dcEnv>>
    /\ UNCHANGED <<bwVars, awVars, rdVars, auxVars>>

\* CreateEntry under the lock: cache.Add and the bucket (lines 279-292)
DcCreateEntryEnd(p) ==
    LET entry == dcProcs[p].entry
        st == DcCreateLocked(DcStore, entry, dcEnv.entryNumberCap)
    IN  /\ dcProcs[p].pc = "add"
        /\ dcIndex' = st.index
        /\ dcGroups' = st.groups
        /\ dcFiles' = st.files
        /\ dcProcs' = [dcProcs EXCEPT ![p] = [pc |-> "idle", entry |-> NoEntry]]
        /\ dcClock' = dcClock + 1
        /\ dcAccess' = [dcAccess EXCEPT ![entry.key] = dcClock + 1]
        /\ dcLast' = [DcNoOp EXCEPT
                !.op = "create", !.key = entry.key, !.group = entry.group,
                !.found = entry,
                !.present = entry.key \in DcKeysOf(dcIndex),
                !.full = (Len(dcIndex) >= dcEnv.entryNumberCap),
                !.evicted = DcKeysOf(dcIndex) \ DcKeysOf(st.index),
                !.oldest = IF dcIndex = <<>> THEN -1 ELSE DcOldest(dcIndex, dcAccess)]
    /\ UNCHANGED <<dcOps, dcEnv>>
    /\ UNCHANGED <<bwVars, awVars, rdVars, auxVars>>

\* GetEntry(key) (lines 303-314)
DcGetEntry(key) ==
    /\ dcOps < dcEnv.maxOps
    /\ dcOps' = dcOps + 1
    /\ dcIndex' = DcTouch(dcIndex, key)
    /\ IF key \in DcKeysOf(dcIndex)
       THEN /\ dcClock' = dcClock + 1
            /\ dcAccess' = [dcAccess EXCEPT ![key] = dcClock + 1]
       ELSE UNCHANGED <<dcClock, dcAccess>>
    /\ dcLast' = [DcNoOp EXCEPT !.op = "get", !.key = key,
                    !.present = key \in DcKeysOf(dcIndex),
                    !.found = IF key \in DcKeysOf(dcIndex)
                              THEN Head(DcSelect(dcIndex, key)) ELSE NoEntry]
    /\ UNCHANGED <<dcGroups, dcFiles, dcProcs, dcEnv>>
    /\ UNCHANGED <<bwVars, awVars, rdVars, auxVars>>

\* HasEntry(key): cache.Contains, which does not touch the list (295-300)
DcHasEntry(key) ==
    /\ dcOps < dcEnv.maxOps
    /\ dcOps' = dcOps + 1
    /\ dcLast' = [DcNoOp EXCEPT !.op = "has", !.key = key,
                    !.present = key \in DcKeysOf(dcIndex)]
    /\ UNCHANGED <<dcIndex, dcGroups, dcFiles, dcProcs, dcAccess, dcClock, dcEnv>>
    /\ UNCHANGED <<bwVars, awVars, rdVars, auxVars>>

\* DeleteEntry(key) (lines 317-322)
DcDeleteEntry(key) ==
    LET st == DcRemove(DcStore, key)
    IN  /\ dcOps < dcEnv.maxOps
        /\ dcOps' = dcOps + 1
        /\ dcIndex' = st.index
        /\ dcGroups' = st.groups
        /\ dcFiles' = st.files
        /\ dcLast' = [DcNoOp EXCEPT !.op = "delete", !.key = key,
                        !.present = key \in DcKeysOf(dcIndex)]
    /\ UNCHANGED <<dcProcs, dcAccess, dcClock, dcEnv>>
    /\ UNCHANGED <<bwVars, awVars, rdVars, auxVars>>

\* DeleteAllEntriesForGroup(group) (lines 226-235)
DcDeleteAllEntriesForGroup(group) ==
    LET st == DcDeleteGroup(DcStore, group)
    IN  /\ dcOps < dcEnv.maxOps
        /\ dcOps' = dcOps + 1
        /\ dcIndex' = st.index
        /\ dcGroups' = st.groups
        /\ dcFiles' = st.files
        /\ dcLast' = [DcNoOp EXCEPT !.op = "purge", !.group = group,
                        !.before = dcIndex]
    /\ UNCHANGED <<dcProcs, dcAccess, dcClock, dcEnv>>
    /\ UNCHANGED <<bwVars, awVars, rdVars, auxVars>>

DcCreateEntry ==
    \/ \E p \in DOMAIN dcProcs, key \in DOMAIN dcFiles, group \in DOMAIN dcGroups,
          len \in DcLens : DcCreateEntryBegin(p, key, group, len)
    \/ \E p \in DOMAIN dcProcs : DcCreateEntryEnd(p)

DcRead ==
    \/ \E key \in DOMAIN dcFiles : DcGetEntry(key)
    \/ \E key \in DOMAIN dcFiles : DcHasEntry(key)

DcDelete ==
    \/ \E key \in DOMAIN dcFiles : DcDeleteEntry(key)
    \/ \E group \in DOMAIN dcGroups : DcDeleteAllEntriesForGroup(group)

\* the store after NewDiskCacheStore (lines 136-160), and the goroutines
\* that use it
DcInitState(keys, groups, procs, entrySizeCap, entryNumberCap, maxOps) ==
    /\ dcIndex = <<>>
    /\ dcGroups = [g \in groups |-> {}]
    /\ dcFiles = [k \in keys |-> NoFile]
    /\ dcProcs = [p \in procs |-> [pc |-> "idle", entry |-> NoEntry]]
    /\ dcAccess = [k \in keys |-> 0]
    /\ dcClock = 0
    /\ dcLast = DcNoOp
    /\ dcOps = 0
    /\ dcEnv = [entrySizeCap |-> entrySizeCap, entryNumberCap |-> entryNumberCap,
                maxOps |-> maxOps]

\* the store of a specification that does not exercise it
DcUnused == DcInitState({0}, {1}, {}, 1, 1, 0)

----------------------------------------------------------------------------
(* AsyncCacheThroughReader, FileBlockStore, FileBlockTransfer(Map)         *)

\* The sizes are scaled down: blocks of RdBlockSize bytes are filled by base
\* reads of at most RdReadBufferSize bytes (16 MiB and 128 KiB in the tests).
RdBlockSize == 2
RdReadBufferSize == 1
RdMaxSize == 3
RdMaxBufLen == 3
RdMaxTransfers == 3
RdSeqMaxTransfers == 4
RdMaxCalls == 1
\* the concurrent callers and the capacity of blockRequests (5 in the code)
\* when every caller is made to wait for the base reader
RdFairCallers == {1, 2, 3}
RdFairRequestsCap == 1

\* the group of the cache entries of the reader: reader.path
RdPath == 1

blockRequestsCap == 5
readBlockStoreCache == 5

\* Go's integer division truncates toward zero
GoDiv(a, b) == IF a >= 0 THEN a \div b ELSE -((-a) \div b)

\* utils.FileBlockHelper
GetBlockIDForOffset(offset) == GoDiv(offset, RdBlockSize)

GetBlockStartOffset(blockID) == blockID * RdBlockSize

GetLastBlockID(size) == GoDiv(size - 1, RdBlockSize)

\* The remote file: its byte at offset i, and what a base reader's ReadAt
\* with a buffer of len bytes returns at offset off
FileByte(i) == i + 1

FileRange(off, n) == [i \in 1..n |-> FileByte(off + i - 1)]

BaseReadLen(off, len) == Max(0, Min(len, rdSize - off))

\* the outcomes of Reader.ReadAt: all the bytes there are, with EOF when the
\* file ends inside the buffer, and with or without EOF when it ends exactly
\* at the end of the buffer; an I/O error when the environment has them
BaseReadAt(off, len) ==
    LET n == BaseReadLen(off, len)
        data == FileRange(off, n)
    IN  (IF off + len > rdSize THEN {[data |-> data, err |-> "EOF"]}
         ELSE IF off + len = rdSize
              THEN {[data |-> data, err |-> "EOF"], [data |-> data, err |-> "nil"]}
              ELSE {[data |-> data, err |-> "nil"]})
        \cup (IF rdEnv.faulty THEN {[data |-> <<>>, err |-> "io"]} ELSE {})

\* ---- FileBlockTransfer ----
\* a MarkFailed that leaves the transfer as it is
MarkFailedNot(tr) == tr

NewFileBlockTransfer(blockID) ==
    [blockID |-> blockID, buffer |-> <<>>, eof |-> FALSE,
     completed |-> FALSE, failed |-> FALSE]

MarkFailed(tr) == IF tr.completed THEN tr ELSE [tr EXCEPT !.failed = TRUE]

MarkCompleted(tr, eof) ==
    [tr EXCEPT !.completed = TRUE, !.failed = FALSE, !.eof = eof]

\* a Broadcast that wakes nobody
BroadcastNone(cons, ts) == cons

\* condition.Broadcast(): the callers asleep in WaitForData of the transfers ts
\* run its loop again
Broadcast(cons, ts) ==
    [c \in DOMAIN cons |->
        IF cons[c].pc = "sleep" /\ cons[c].t \in ts
        THEN [cons[c] EXCEPT !.pc = "wait"] ELSE cons[c]]

\* a CopyTo that copies from the start of the transfer's buffer
CopyToFromStart(tr, len, offset) ==
    [data |-> SubSeq(tr.buffer, 1, Min(Len(tr.buffer), len)),
     err  |-> IF tr.completed /\ tr.eof /\ offset + len >= Len(tr.buffer)
              THEN "EOF" ELSE "nil"]

\* CopyTo(buffer, offset) with len(buffer) = len: the bytes copied, the error
CopyTo(tr, len, offset) ==
    LET copied == SubSeq(tr.buffer, offset + 1,
                         Min(Len(tr.buffer), offset + len))
    IN  [data |-> copied,
         err  |-> IF tr.completed /\ tr.eof
                     /\ offset + Len(copied) >= Len(tr.buffer)
                  THEN "EOF" ELSE "nil"]

\* ---- FileBlockTransferMap ----
StopAllTransfers(trs, map) ==
    [t \in DOMAIN trs |->
        IF \E b \in DOMAIN map : map[b] = t THEN MarkFailed(trs[t]) ELSE trs[t]]

\* ---- FileBlockStore (no cache store), golang-lru ----
RECURSIVE SelectBlock(_, _)
SelectBlock(store, blockID) ==
    IF store = <<>> THEN <<>>
    ELSE IF Head(store).blockID = blockID THEN <<Head(store)>>
    ELSE SelectBlock(Tail(store), blockID)

RECURSIVE WithoutBlock(_, _)
WithoutBlock(store, blockID) ==
    IF store = <<>> THEN <<>>
    ELSE IF Head(store).blockID = blockID THEN WithoutBlock(Tail(store), blockID)
    ELSE <<Head(store)>> \o WithoutBlock(Tail(store), blockID)

StoreContains(store, blockID) == SelectBlock(store, blockID) /= <<>>

\* lruCache.Get moves the block to the front
StoreGet(store, blockID) ==
    SelectBlock(store, blockID) \o WithoutBlock(store, blockID)

\* an lruCache.Add that does not keep the block
StorePutNot(store, block) == store

\* lruCache.Add puts the block at the front and evicts the oldest
StorePut(store, block) ==
    LET added == <<block>> \o WithoutBlock(store, block.blockID)
    IN  SubSeq(added, 1, Min(Len(added), readBlockStoreCache))

\* a block rebuilt from a cache entry that is given as the end of the file
BlockFromEntryEOF(blockID, data) == [blockID |-> blockID, buffer |-> data, eof |-> TRUE]

\* FileBlockStore.Get: the block rebuilt from the data of a cache entry, which
\* is the end of the file when it is shorter than a block (lines 556-561)
BlockFromEntry(blockID, data) ==
    [blockID |-> blockID, buffer |-> data, eof |-> Len(data) < RdBlockSize]

\* ---- Prefetcher.Determine: the block to prefetch, or -1 ----
PrefetchTarget(offset, size) ==
    LET blockID == GetBlockIDForOffset(offset)
        inBlockOffset == offset - GetBlockStartOffset(blockID)
        triggerPoint == (RdBlockSize * 3) \div 10
        target == IF blockID >= GetLastBlockID(size) THEN 0 ELSE blockID + 1
    IN  IF inBlockOffset < triggerPoint THEN -1
        ELSE IF target \in rdPrefetched THEN -1 ELSE target

RdBlocks == 0..GetBlockIDForOffset(RdMaxSize + RdMaxBufLen)

NoResult == [n |-> 0, err |-> "nil", data |-> <<>>, offset |-> -1, bufLen |-> 0]

RdIdle ==
    [pc |-> "idle", bufLen |-> 0, offset |-> 0, total |-> 0, cur |-> 0,
     out |-> <<>>, t |-> 0, blk |-> 0, ctx |-> "read", err |-> "nil",
     res |-> NoResult, calls |-> 0]

\* what readAtBase is asked for in the block of curOffset:
\* inBlockOffset and len(buffer)
RdInBlockOffset(k) == k.cur - GetBlockStartOffset(GetBlockIDForOffset(k.cur))

RdReadLenFromBase(k) ==
    Min(RdBlockSize - RdInBlockOffset(k), k.bufLen - k.total)

\* ---- ReadAt ----
\* Every critical section of the code is one step.  A goroutine whose pc is
\* "sleep" is in condition.Wait() of its transfer; one whose pc is "panic"
\* hit a runtime panic (a send on a closed channel, a slice beyond its
\* length) and takes no further step.

\* ReadAt is entered: the checks of the arguments (lines 161-163).  Callers
\* enter ReadAt only before Release is called; the sequential caller calls
\* at the offset it has reached, and stops at EOF or an error.
RdReadAtBegin(c, len, offset) ==
    /\ rdCons[c].pc = "idle"
    /\ rdCons[c].calls < rdEnv.maxCalls
    /\ rdRel = "idle"
    /\ rdEnv.seq => (offset = Len(rdDelivered) /\ rdCons[c].res.err = "nil")
    /\ rdCons' = [rdCons EXCEPT ![c] =
            IF len <= 0 \/ offset < 0
            THEN [@ EXCEPT !.res = [n |-> 0, err |-> "nil", data |-> <<>>,
                                    offset |-> offset, bufLen |-> len],
                           !.calls = @ + 1]
            ELSE [@ EXCEPT !.pc = "loop", !.bufLen = len, !.offset = offset,
                           !.total = 0, !.cur = offset, !.out = <<>>,
                           !.err = "nil", !.t = 0]]
    /\ UNCHANGED <<rdSize, rdNumReaders, rdTransfers, rdMap, rdRequests, rdAvail,
                   rdDisp, rdWorkers, rdStore, rdPrefetched, rdTerminate,
                   rdLastError, rdRel, rdAtRelease, rdDelivered, rdEnv, rdPass>>
    /\ UNCHANGED <<bwVars, awVars, dcVars, auxVars>>

\* ReadAt copies from a block of the block store (lines 184-201)
RdServe(k, block) ==
    LET inBlockOffset == RdInBlockOffset(k)
        blockData == block.buffer
        copied == SubSeq(blockData, inBlockOffset + 1,
                         Min(Len(blockData), inBlockOffset + k.bufLen - k.total))
        fully == inBlockOffset + Len(copied) = Len(blockData)
    IN  IF inBlockOffset > Len(blockData)
        THEN [k EXCEPT !.pc = "panic"]
        ELSE [k EXCEPT !.cur = @ + Len(copied),
                       !.total = @ + Len(copied),
                       !.out = @ \o copied,
                       !.err = IF fully /\ block.eof THEN "EOF" ELSE "nil",
                       !.pc = IF fully /\ block.eof THEN "prefetch" ELSE "loop"]

\* one turn of the loop of ReadAt up to the call of readAtBase: the block is
\* taken from the block store when its LRU has it (lines 174-202, 548-550);
\* otherwise FileBlockStore.Get goes on to the cache store when there is one
RdLoop(c) ==
    LET k == rdCons[c]
        blockID == GetBlockIDForOffset(k.cur)
        store == StoreGet(rdStore, blockID)
    IN  /\ k.pc = "loop"
        /\ IF k.total >= k.bufLen
           THEN /\ rdCons' = [rdCons EXCEPT ![c].pc = "prefetch", ![c].err = "nil"]
                /\ UNCHANGED rdStore
           ELSE IF ~StoreContains(rdStore, blockID)
           THEN /\ rdCons' = [rdCons EXCEPT ![c].blk = blockID, ![c].ctx = "read",
                        ![c].pc = IF rdEnv.cache THEN "cacheget" ELSE "mapget"]
                /\ UNCHANGED rdStore
           ELSE /\ rdStore' = store
                /\ rdCons' = [rdCons EXCEPT ![c] = RdServe(k, Head(store))]
    /\ UNCHANGED <<rdSize, rdNumReaders, rdTransfers, rdMap, rdRequests, rdAvail,
                   rdDisp, rdWorkers, rdPrefetched, rdTerminate,
                   rdLastError, rdRel, rdAtRelease, rdDelivered, rdEnv, rdPass>>
    /\ UNCHANGED <<bwVars, awVars, dcVars, auxVars>>

\* FileBlockStore.Get, the cache store (lines 552-571): GetEntry, which
\* touches the entry, ReadData of its file into a new block, lruCache.Add;
\* ReadAt then copies from the block
RdCacheGet(c) ==
    LET k == rdCons[c]
        key == k.blk
        found == key \in DcKeysOf(dcIndex)
        block == BlockFromEntry(key, dcFiles[key])
    IN  /\ k.pc = "cacheget"
        /\ dcIndex' = IF found THEN DcTouch(dcIndex, key) ELSE dcIndex
        /\ IF found /\ dcFiles[key] # NoFile
           THEN /\ rdStore' = StorePut(rdStore, block)
                /\ rdCons' = [rdCons EXCEPT ![c] = RdServe(k, block)]
           ELSE /\ rdCons' = [rdCons EXCEPT ![c].pc = "mapget"]
                /\ UNCHANGED rdStore
    /\ UNCHANGED <<rdSize, rdNumReaders, rdTransfers, rdMap, rdRequests, rdAvail,
                   rdDisp, rdWorkers, rdPrefetched, rdTerminate,
                   rdLastError, rdRel, rdAtRelease, rdDelivered, rdEnv, rdPass>>
    /\ UNCHANGED <<dcGroups, dcFiles, dcProcs, dcAccess, dcClock, dcLast, dcOps, dcEnv>>
    /\ UNCHANGED <<bwVars, awVars, auxVars>>

\* readAtBase: transferMap.Get(blockID) (line 255)
RdMapGet(c) ==
    /\ rdCons[c].pc = "mapget"
    /\ rdCons' = [rdCons EXCEPT ![c].t = rdMap[rdCons[c].blk],
                                ![c].pc = IF rdMap[rdCons[c].blk] = 0
                                          THEN "sched" ELSE "wait"]
    /\ UNCHANGED <<rdSize, rdNumReaders, rdTransfers, rdMap, rdRequests, rdAvail,
                   rdDisp, rdWorkers, rdStore, rdPrefetched, rdTerminate,
                   rdLastError, rdRel, rdAtRelease, rdDelivered, rdEnv, rdPass>>
    /\ UNCHANGED <<bwVars, awVars, dcVars, auxVars>>

\* scheduleBlockTransfer: the check of terminate (lines 320-325); without a
\* transfer readAtBase fails and ReadAt returns, the prefetch gives up
RdSchedule(c) ==
    /\ rdCons[c].pc = "sched"
    /\ rdCons' = [rdCons EXCEPT ![c] =
            IF ~rdTerminate THEN [@ EXCEPT !.pc = "put"]
            ELSE IF @.ctx = "read" THEN [@ EXCEPT !.pc = "prefetch", !.err = "sched"]
            ELSE [@ EXCEPT !.pc = "return"]]
    /\ UNCHANGED <<rdSize, rdNumReaders, rdTransfers, rdMap, rdRequests, rdAvail,
                   rdDisp, rdWorkers, rdStore, rdPrefetched, rdTerminate,
                   rdLastError, rdRel, rdAtRelease, rdDelivered, rdEnv, rdPass>>
    /\ UNCHANGED <<bwVars, awVars, dcVars, auxVars>>

\* scheduleBlockTransfer: NewFileBlockTransfer and transferMap.Put (327-328)
RdSchedulePut(c) ==
    /\ rdCons[c].pc = "put"
    /\ Len(rdTransfers) < rdEnv.maxTransfers
    /\ rdTransfers' = Append(rdTransfers, NewFileBlockTransfer(rdCons[c].blk))
    /\ rdMap' = [rdMap EXCEPT ![rdCons[c].blk] = Len(rdTransfers) + 1]
    /\ rdCons' = [rdCons EXCEPT ![c].t = Len(rdTransfers) + 1, ![c].pc = "send"]
    /\ UNCHANGED <<rdSize, rdNumReaders, rdRequests, rdAvail,
                   rdDisp, rdWorkers, rdStore, rdPrefetched, rdTerminate,
                   rdLastError, rdRel, rdAtRelease, rdDelivered, rdEnv, rdPass>>
    /\ UNCHANGED <<bwVars, awVars, dcVars, auxVars>>

\* scheduleBlockTransfer: blockRequests <- transfer (line 330), which blocks
\* while the channel is full and panics when it is closed
RdScheduleSend(c) ==
    /\ rdCons[c].pc = "send"
    /\ rdRequests.closed \/ Len(rdRequests.q) < rdEnv.requestsCap
    /\ IF rdRequests.closed
       THEN /\ rdCons' = [rdCons EXCEPT ![c].pc = "panic"]
            /\ UNCHANGED rdRequests
       ELSE /\ rdRequests' = [rdRequests EXCEPT !.q = Append(@, rdCons[c].t)]
            /\ rdCons' = [rdCons EXCEPT ![c].pc =
                            IF rdCons[c].ctx = "read" THEN "wait" ELSE "return"]
    /\ UNCHANGED <<rdSize, rdNumReaders, rdTransfers, rdMap, rdAvail,
                   rdDisp, rdWorkers, rdStore, rdPrefetched, rdTerminate,
                   rdLastError, rdRel, rdAtRelease, rdDelivered, rdEnv, rdPass>>
    /\ UNCHANGED <<bwVars, awVars, dcVars, auxVars>>

\* readAtBase: transfer.WaitForData(inBlockOffset + bufferLen) (line 267):
\* one turn of its loop, which ends in condition.Wait() when the bytes are
\* not there and the transfer is neither completed nor failed
RdWaitForData(c) ==
    LET k == rdCons[c]
        tr == rdTransfers[k.t]
        size == RdInBlockOffset(k) + RdReadLenFromBase(k)
    IN  /\ k.pc = "wait"
        /\ rdCons' = [rdCons EXCEPT ![c] =
                IF Len(tr.buffer) >= size \/ tr.completed THEN [@ EXCEPT !.pc = "copy"]
                ELSE IF tr.failed THEN [@ EXCEPT !.pc = "prefetch", !.err = "transfer"]
                ELSE [@ EXCEPT !.pc = "sleep"]]
    /\ UNCHANGED <<rdSize, rdNumReaders, rdTransfers, rdMap, rdRequests, rdAvail,
                   rdDisp, rdWorkers, rdStore, rdPrefetched, rdTerminate,
                   rdLastError, rdRel, rdAtRelease, rdDelivered, rdEnv, rdPass>>
    /\ UNCHANGED <<bwVars, awVars, dcVars, auxVars>>

\* readAtBase: transfer.CopyTo (line 275) and the rest of the turn of the
\* loop of ReadAt (lines 214-226)
RdCopyTo(c) ==
    LET k == rdCons[c]
        tr == rdTransfers[k.t]
        r == CopyTo(tr, RdReadLenFromBase(k), RdInBlockOffset(k))
    IN  /\ k.pc = "copy"
        /\ rdCons' = [rdCons EXCEPT ![c] =
                IF RdInBlockOffset(k) > Len(tr.buffer)
                THEN [@ EXCEPT !.pc = "panic"]
                ELSE [@ EXCEPT !.cur = @ + Len(r.data),
                               !.total = @ + Len(r.data),
                               !.out = @ \o r.data,
                               !.err = r.err,
                               !.pc = IF r.err = "nil" THEN "loop" ELSE "prefetch"]]
    /\ UNCHANGED <<rdSize, rdNumReaders, rdTransfers, rdMap, rdRequests, rdAvail,
                   rdDisp, rdWorkers, rdStore, rdPrefetched, rdTerminate,
                   rdLastError, rdRel, rdAtRelease, rdDelivered, rdEnv, rdPass>>
    /\ UNCHANGED <<bwVars, awVars, dcVars, auxVars>>

\* ---- checkAndTriggerPrefetch, deferred by ReadAt ----
\* prefetcher.Determine (lines 335-339)
RdPrefetch(c) ==
    LET target == PrefetchTarget(rdCons[c].offset, rdSize)
    IN  /\ rdCons[c].pc = "prefetch"
        /\ IF rdNumReaders <= 1 \/ target = -1
           THEN /\ rdCons' = [rdCons EXCEPT ![c].pc = "return"]
                /\ UNCHANGED rdPrefetched
           ELSE /\ rdCons' = [rdCons EXCEPT ![c].pc = "pfmap", ![c].blk = target,
                                            ![c].ctx = "pf"]
                /\ rdPrefetched' = rdPrefetched \cup {target}
    /\ UNCHANGED <<rdSize, rdNumReaders, rdTransfers, rdMap, rdRequests, rdAvail,
                   rdDisp, rdWorkers, rdStore, rdTerminate,
                   rdLastError, rdRel, rdAtRelease, rdDelivered, rdEnv, rdPass>>
    /\ UNCHANGED <<bwVars, awVars, dcVars, auxVars>>

\* transferMap.Contains(prefetchBlockID) (line 342)
RdPrefetchInMap(c) ==
    /\ rdCons[c].pc = "pfmap"
    /\ rdCons' = [rdCons EXCEPT ![c].pc =
                    IF rdMap[rdCons[c].blk] /= 0 THEN "return" ELSE "pfstore"]
    /\ UNCHANGED <<rdSize, rdNumReaders, rdTransfers, rdMap, rdRequests, rdAvail,
                   rdDisp, rdWorkers, rdStore, rdPrefetched, rdTerminate,
                   rdLastError, rdRel, rdAtRelease, rdDelivered, rdEnv, rdPass>>
    /\ UNCHANGED <<bwVars, awVars, dcVars, auxVars>>

\* blockStore.Contains(prefetchBlockID) (line 346): lruCache.Contains, or
\* cacheStore.HasEntry when there is a cache store (lines 528-539)
RdPrefetchInStore(c) ==
    /\ rdCons[c].pc = "pfstore"
    /\ rdCons' = [rdCons EXCEPT ![c].pc =
                    IF \/ StoreContains(rdStore, rdCons[c].blk)
                       \/ rdEnv.cache /\ rdCons[c].blk \in DcKeysOf(dcIndex)
                    THEN "return" ELSE "sched"]
    /\ UNCHANGED <<rdSize, rdNumReaders, rdTransfers, rdMap, rdRequests, rdAvail,
                   rdDisp, rdWorkers, rdStore, rdPrefetched, rdTerminate,
                   rdLastError, rdRel, rdAtRelease, rdDelivered, rdEnv, rdPass>>
    /\ UNCHANGED <<bwVars, awVars, dcVars, auxVars>>

\* ReadAt returns to its caller
RdReturn(c) ==
    LET k == rdCons[c]
    IN  /\ k.pc = "return"
        /\ rdCons' = [rdCons EXCEPT ![c].pc = "idle", ![c].calls = @ + 1,
                        ![c].res = [n |-> k.cur - k.offset, err |-> k.err,
                                    data |-> k.out, offset |-> k.offset,
                                    bufLen |-> k.bufLen]]
        /\ rdDelivered' = IF rdEnv.seq THEN rdDelivered \o k.out ELSE rdDelivered
    /\ UNCHANGED <<rdSize, rdNumReaders, rdTransfers, rdMap, rdRequests, rdAvail,
                   rdDisp, rdWorkers, rdStore, rdPrefetched, rdTerminate,
                   rdLastError, rdRel, rdAtRelease, rdEnv, rdPass>>
    /\ UNCHANGED <<bwVars, awVars, dcVars, auxVars>>

\* ---- asyncRequestHandler ----
\* for transfer := range reader.blockRequests (line 356)
RdDispReceive ==
    /\ rdDisp.pc = "recv"
    /\ rdRequests.q /= <<>> \/ rdRequests.closed
    /\ IF rdRequests.q /= <<>>
       THEN /\ rdDisp' = [pc |-> "check", t |-> Head(rdRequests.q)]
            /\ rdRequests' = [rdRequests EXCEPT !.q = Tail(@)]
       ELSE /\ rdDisp' = [rdDisp EXCEPT !.pc = "exit"]
            /\ UNCHANGED rdRequests
    /\ UNCHANGED <<rdSize, rdNumReaders, rdCons, rdTransfers, rdMap, rdAvail,
                   rdWorkers, rdStore, rdPrefetched, rdTerminate,
                   rdLastError, rdRel, rdAtRelease, rdDelivered, rdEnv, rdPass>>
    /\ UNCHANGED <<bwVars, awVars, dcVars, auxVars>>

\* the check of terminate (lines 357-363)
RdDispCheck ==
    /\ rdDisp.pc = "check"
    /\ rdDisp' = [rdDisp EXCEPT !.pc = IF rdTerminate THEN "exit" ELSE "reader"]
    /\ UNCHANGED <<rdSize, rdNumReaders, rdCons, rdTransfers, rdMap, rdRequests,
                   rdAvail, rdWorkers, rdStore, rdPrefetched, rdTerminate,
                   rdLastError, rdRel, rdAtRelease, rdDelivered, rdEnv, rdPass>>
    /\ UNCHANGED <<bwVars, awVars, dcVars, auxVars>>

\* <-reader.availableBaseReaders and startAsyncTransfer, which starts the
\* goroutine of the transfer (lines 365-370, 385)
RdDispStart ==
    /\ rdDisp.pc = "reader"
    /\ rdAvail.q /= <<>> \/ rdAvail.closed
    /\ IF rdAvail.q /= <<>>
       THEN /\ rdAvail' = [rdAvail EXCEPT !.q = Tail(@)]
            /\ rdWorkers' = [rdWorkers EXCEPT ![rdDisp.t] =
                    [pc |-> "loop", br |-> Head(rdAvail.q), total |-> 0,
                     cur |-> GetBlockStartOffset(rdTransfers[rdDisp.t].blockID),
                     eof |-> FALSE]]
            /\ rdDisp' = [pc |-> "recv", t |-> 0]
       ELSE /\ rdDisp' = [rdDisp EXCEPT !.pc = "exit"]
            /\ UNCHANGED <<rdAvail, rdWorkers>>
    /\ UNCHANGED <<rdSize, rdNumReaders, rdCons, rdTransfers, rdMap, rdRequests,
                   rdStore, rdPrefetched, rdTerminate,
                   rdLastError, rdRel, rdAtRelease, rdDelivered, rdEnv, rdPass>>
    /\ UNCHANGED <<bwVars, awVars, dcVars, auxVars>>

\* reader.asyncReaderWaiter.Done() (line 373)
RdDispDone ==
    /\ rdDisp.pc = "exit"
    /\ rdDisp' = [rdDisp EXCEPT !.pc = "done"]
    /\ UNCHANGED <<rdSize, rdNumReaders, rdCons, rdTransfers, rdMap, rdRequests,
                   rdAvail, rdWorkers, rdStore, rdPrefetched, rdTerminate,
                   rdLastError, rdRel, rdAtRelease, rdDelivered, rdEnv, rdPass>>
    /\ UNCHANGED <<bwVars, awVars, dcVars, auxVars>>

\* ---- the goroutine of startAsyncTransfer, for transfer t ----
\* the head of the loop: totalReadLen < blockSize, t.IsFailed() (396-399)
RdWorkerLoop(t) ==
    /\ rdWorkers[t].pc = "loop"
    /\ rdWorkers' = [rdWorkers EXCEPT ![t].pc =
            IF rdWorkers[t].total >= RdBlockSize THEN "complete"
            ELSE IF rdTransfers[t].failed THEN "remove" ELSE "read"]
    /\ UNCHANGED <<rdSize, rdNumReaders, rdCons, rdTransfers, rdMap, rdRequests,
                   rdAvail, rdDisp, rdStore, rdPrefetched, rdTerminate,
                   rdLastError, rdRel, rdAtRelease, rdDelivered, rdEnv, rdPass>>
    /\ UNCHANGED <<bwVars, awVars, dcVars, auxVars>>

\* br.ReadAt(buffer, curOffset), t.Write, and what follows an error: EOF
\* ends the loop, another error marks the transfer failed (401-418)
RdWorkerRead(t) ==
    /\ rdWorkers[t].pc = "read"
    /\ \E r \in BaseReadAt(rdWorkers[t].cur, RdReadBufferSize) :
        /\ rdWorkers' = [rdWorkers EXCEPT ![t] =
                [@ EXCEPT !.total = @ + Len(r.data), !.cur = @ + Len(r.data),
                          !.eof = (r.err = "EOF"),
                          !.pc = IF r.err = "EOF" THEN "complete"
                                 ELSE IF r.err = "nil" THEN "loop" ELSE "seterr"]]
        /\ rdTransfers' = [rdTransfers EXCEPT ![t] =
                IF r.err \in {"nil", "EOF"} THEN [@ EXCEPT !.buffer = @ \o r.data]
                ELSE MarkFailed(@)]
        /\ rdCons' = IF r.err \in {"nil", "EOF"} THEN rdCons ELSE Broadcast(rdCons, {t})
    /\ UNCHANGED <<rdSize, rdNumReaders, rdMap, rdRequests,
                   rdAvail, rdDisp, rdStore, rdPrefetched, rdTerminate,
                   rdLastError, rdRel, rdAtRelease, rdDelivered, rdEnv, rdPass>>
    /\ UNCHANGED <<bwVars, awVars, dcVars, auxVars>>

\* after t.MarkFailed(): r.lastError = err and return (lines 429-432)
RdWorkerSetError(t) ==
    /\ rdWorkers[t].pc = "seterr"
    /\ rdLastError' = "io"
    /\ rdWorkers' = [rdWorkers EXCEPT ![t].pc = "remove"]
    /\ UNCHANGED <<rdSize, rdNumReaders, rdCons, rdTransfers, rdMap, rdRequests,
                   rdAvail, rdDisp, rdStore, rdPrefetched, rdTerminate,
                   rdRel, rdAtRelease, rdDelivered, rdEnv, rdPass>>
    /\ UNCHANGED <<bwVars, awVars, dcVars, auxVars>>

\* t.MarkCompleted(eof) (line 421)
RdWorkerComplete(t) ==
    /\ rdWorkers[t].pc = "complete"
    /\ rdTransfers' = [rdTransfers EXCEPT ![t] = MarkCompleted(@, rdWorkers[t].eof)]
    /\ rdCons' = Broadcast(rdCons, {t})
    /\ rdWorkers' = [rdWorkers EXCEPT ![t].pc = "store"]
    /\ UNCHANGED <<rdSize, rdNumReaders, rdMap, rdRequests,
                   rdAvail, rdDisp, rdStore, rdPrefetched, rdTerminate,
                   rdLastError, rdRel, rdAtRelease, rdDelivered, rdEnv, rdPass>>
    /\ UNCHANGED <<bwVars, awVars, dcVars, auxVars>>

\* r.blockStore.Put(NewFileBlockWithBuffer(...)) (lines 438-440):
\* lruCache.Add (line 585)
RdWorkerPut(t) ==
    /\ rdWorkers[t].pc = "store"
    /\ rdStore' = StorePut(rdStore, [blockID |-> rdTransfers[t].blockID,
                                     buffer |-> rdTransfers[t].buffer,
                                     eof |-> rdTransfers[t].eof])
    /\ rdWorkers' = [rdWorkers EXCEPT ![t].pc = IF rdEnv.cache THEN "cache" ELSE "remove"]
    /\ UNCHANGED <<rdSize, rdNumReaders, rdCons, rdTransfers, rdMap, rdRequests,
                   rdAvail, rdDisp, rdPrefetched, rdTerminate,
                   rdLastError, rdRel, rdAtRelease, rdDelivered, rdEnv, rdPass>>
    /\ UNCHANGED <<bwVars, awVars, dcVars, auxVars>>

\* a FileBlockStore.Put that creates the entry of the block and no entry for
\* the block after it
RdWorkerCachePutBlockOnly(t) ==
    LET tr == rdTransfers[t]
        st1 == DcCreate(DcStore, tr.blockID, RdPath, tr.buffer, dcEnv.entryNumberCap)
    IN  /\ rdWorkers[t].pc = "cache"
        /\ rdWorkers' = [rdWorkers EXCEPT ![t].pc = "remove"]
        /\ IF dcEnv.entrySizeCap < Len(tr.buffer)
           THEN /\ rdLastError' = "cache"
                /\ UNCHANGED <<dcIndex, dcGroups, dcFiles>>
           ELSE /\ dcIndex' = st1.index
                /\ dcGroups' = st1.groups
                /\ dcFiles' = st1.files
                /\ UNCHANGED rdLastError
    /\ UNCHANGED <<rdSize, rdNumReaders, rdCons, rdTransfers, rdMap, rdRequests,
                   rdAvail, rdDisp, rdStore, rdPrefetched, rdTerminate,
                   rdRel, rdAtRelease, rdDelivered, rdEnv, rdPass>>
    /\ UNCHANGED <<dcProcs, dcAccess, dcClock, dcLast, dcOps, dcEnv>>
    /\ UNCHANGED <<bwVars, awVars, auxVars>>

\* FileBlockStore.Put, the cache store (lines 587-607): CreateEntry of the
\* block, and of an empty entry for the next block when the block is full
\* and ends the file; an error of CreateEntry becomes r.lastError (441-446)
RdWorkerCachePut(t) ==
    LET tr == rdTransfers[t]
        st1 == DcCreate(DcStore, tr.blockID, RdPath, tr.buffer, dcEnv.entryNumberCap)
        st2 == IF Len(tr.buffer) = RdBlockSize /\ tr.eof
               THEN DcCreate(st1, tr.blockID + 1, RdPath, <<>>, dcEnv.entryNumberCap)
               ELSE st1
    IN  /\ rdWorkers[t].pc = "cache"
        /\ rdWorkers' = [rdWorkers EXCEPT ![t].pc = "remove"]
        /\ IF dcEnv.entrySizeCap < Len(tr.buffer)
           THEN /\ rdLastError' = "cache"
                /\ UNCHANGED <<dcIndex, dcGroups, dcFiles>>
           ELSE /\ dcIndex' = st2.index
                /\ dcGroups' = st2.groups
                /\ dcFiles' = st2.files
                /\ UNCHANGED rdLastError
    /\ UNCHANGED <<rdSize, rdNumReaders, rdCons, rdTransfers, rdMap, rdRequests,
                   rdAvail, rdDisp, rdStore, rdPrefetched, rdTerminate,
                   rdRel, rdAtRelease, rdDelivered, rdEnv, rdPass>>
    /\ UNCHANGED <<dcProcs, dcAccess, dcClock, dcLast, dcOps, dcEnv>>
    /\ UNCHANGED <<bwVars, awVars, auxVars>>

\* deferred: r.transferMap.Remove(blockID) (line 382)
RdWorkerRemove(t) ==
    /\ rdWorkers[t].pc = "remove"
    /\ rdMap' = [rdMap EXCEPT ![rdTransfers[t].blockID] = 0]
    /\ rdWorkers' = [rdWorkers EXCEPT ![t].pc = "terminate"]
    /\ UNCHANGED <<rdSize, rdNumReaders, rdCons, rdTransfers, rdRequests,
                   rdAvail, rdDisp, rdStore, rdPrefetched, rdTerminate,
                   rdLastError, rdRel, rdAtRelease, rdDelivered, rdEnv, rdPass>>
    /\ UNCHANGED <<bwVars, awVars, dcVars, auxVars>>

\* deferred: the check of terminate (lines 384-386)
RdWorkerTerminate(t) ==
    /\ rdWorkers[t].pc = "terminate"
    /\ rdWorkers' = [rdWorkers EXCEPT ![t].pc = IF rdTerminate THEN "done" ELSE "giveback"]
    /\ UNCHANGED <<rdSize, rdNumReaders, rdCons, rdTransfers, rdMap, rdRequests,
                   rdAvail, rdDisp, rdStore, rdPrefetched, rdTerminate,
                   rdLastError, rdRel, rdAtRelease, rdDelivered, rdEnv, rdPass>>
    /\ UNCHANGED <<bwVars, awVars, dcVars, auxVars>>

\* a worker that sends its base reader twice
RdWorkerGiveBackTwice(t) ==
    /\ rdWorkers[t].pc = "giveback"
    /\ IF rdAvail.closed
       THEN /\ rdWorkers' = [rdWorkers EXCEPT ![t].pc = "panic"]
            /\ UNCHANGED rdAvail
       ELSE /\ rdWorkers' = [rdWorkers EXCEPT ![t].pc = "done"]
            /\ rdAvail' = [rdAvail EXCEPT !.q = Append(Append(@, rdWorkers[t].br),
                                                       rdWorkers[t].br)]
    /\ UNCHANGED <<rdSize, rdNumReaders, rdCons, rdTransfers, rdMap, rdRequests,
                   rdDisp, rdStore, rdPrefetched, rdTerminate,
                   rdLastError, rdRel, rdAtRelease, rdDelivered, rdEnv, rdPass>>
    /\ UNCHANGED <<bwVars, awVars, dcVars, auxVars>>

\* deferred: r.availableBaseReaders <- br (line 389), which panics when the
\* channel is closed
RdWorkerGiveBack(t) ==
    /\ rdWorkers[t].pc = "giveback"
    /\ IF rdAvail.closed
       THEN /\ rdWorkers' = [rdWorkers EXCEPT ![t].pc = "panic"]
            /\ UNCHANGED rdAvail
       ELSE /\ rdWorkers' = [rdWorkers EXCEPT ![t].pc = "done"]
            /\ rdAvail' = [rdAvail EXCEPT !.q = Append(@, rdWorkers[t].br)]
    /\ UNCHANGED <<rdSize, rdNumReaders, rdCons, rdTransfers, rdMap, rdRequests,
                   rdDisp, rdStore, rdPrefetched, rdTerminate,
                   rdLastError, rdRel, rdAtRelease, rdDelivered, rdEnv, rdPass>>
    /\ UNCHANGED <<bwVars, awVars, dcVars, auxVars>>

\* ---- Release ----
\* reader.terminate = true (lines 98-100); the sequential caller calls
\* Release between its calls of ReadAt
RdReleaseTerminate ==
    /\ rdRel = "idle"
    /\ rdEnv.release
    /\ rdEnv.seq => \A c \in DOMAIN rdCons : rdCons[c].pc = "idle"
    /\ rdTerminate' = TRUE
    /\ rdAtRelease' = 1..Len(rdTransfers)
    /\ rdRel' = "closeRequests"
    /\ UNCHANGED <<rdSize, rdNumReaders, rdCons, rdTransfers, rdMap, rdRequests,
                   rdAvail, rdDisp, rdWorkers, rdStore, rdPrefetched,
                   rdLastError, rdDelivered, rdEnv, rdPass>>
    /\ UNCHANGED <<bwVars, awVars, dcVars, auxVars>>

\* close(reader.blockRequests) (line 102)
RdReleaseCloseRequests ==
    /\ rdRel = "closeRequests"
    /\ rdRequests' = [rdRequests EXCEPT !.closed = TRUE]
    /\ rdRel' = "closeReaders"
    /\ UNCHANGED <<rdSize, rdNumReaders, rdCons, rdTransfers, rdMap,
                   rdAvail, rdDisp, rdWorkers, rdStore, rdPrefetched, rdTerminate,
                   rdLastError, rdAtRelease, rdDelivered, rdEnv, rdPass>>
    /\ UNCHANGED <<bwVars, awVars, dcVars, auxVars>>

\* close(reader.availableBaseReaders) (line 103)
RdReleaseCloseReaders ==
    /\ rdRel = "closeReaders"
    /\ rdAvail' = [rdAvail EXCEPT !.closed = TRUE]
    /\ rdRel' = "stop"
    /\ UNCHANGED <<rdSize, rdNumReaders, rdCons, rdTransfers, rdMap, rdRequests,
                   rdDisp, rdWorkers, rdStore, rdPrefetched, rdTerminate,
                   rdLastError, rdAtRelease, rdDelivered, rdEnv, rdPass>>
    /\ UNCHANGED <<bwVars, awVars, dcVars, auxVars>>

\* reader.transferMap.StopAllTransfers() (line 105)
RdReleaseStopAll ==
    /\ rdRel = "stop"
    /\ rdTransfers' = StopAllTransfers(rdTransfers, rdMap)
    /\ rdCons' = Broadcast(rdCons, {rdMap[b] : b \in DOMAIN rdMap})
    /\ rdRel' = "wait"
    /\ UNCHANGED <<rdSize, rdNumReaders, rdMap, rdRequests,
                   rdAvail, rdDisp, rdWorkers, rdStore, rdPrefetched, rdTerminate,
                   rdLastError, rdAtRelease, rdDelivered, rdEnv, rdPass>>
    /\ UNCHANGED <<bwVars, awVars, dcVars, auxVars>>

\* reader.asyncReaderWaiter.Wait() (line 108)
RdReleaseWait ==
    /\ rdRel = "wait"
    /\ rdDisp.pc = "done"
    /\ rdRel' = "purge"
    /\ UNCHANGED <<rdSize, rdNumReaders, rdCons, rdTransfers, rdMap, rdRequests,
                   rdAvail, rdDisp, rdWorkers, rdStore, rdPrefetched, rdTerminate,
                   rdLastError, rdAtRelease, rdDelivered, rdEnv, rdPass>>
    /\ UNCHANGED <<bwVars, awVars, dcVars, auxVars>>

\* reader.blockStore.Release() and baseReader.Release() (lines 111-115)
RdReleasePurge ==
    /\ rdRel = "purge"
    /\ rdStore' = <<>>
    /\ rdRel' = "done"
    /\ UNCHANGED <<rdSize, rdNumReaders, rdCons, rdTransfers, rdMap, rdRequests,
                   rdAvail, rdDisp, rdWorkers, rdPrefetched, rdTerminate,
                   rdLastError, rdAtRelease, rdDelivered, rdEnv, rdPass>>
    /\ UNCHANGED <<bwVars, awVars, dcVars, auxVars>>

RdReadAt ==
    \/ \E c \in DOMAIN rdCons, len \in rdEnv.lens, offset \in rdEnv.offsets :
            RdReadAtBegin(c, len, offset)
    \/ \E c \in DOMAIN rdCons : RdLoop(c)
    \/ \E c \in DOMAIN rdCons : RdMapGet(c)
    \/ \E c \in DOMAIN rdCons : RdSchedule(c)
    \/ \E c \in DOMAIN rdCons : RdSchedulePut(c)
    \/ \E c \in DOMAIN rdCons : RdScheduleSend(c)
    \/ \E c \in DOMAIN rdCons : RdWaitForData(c)
    \/ \E c \in DOMAIN rdCons : RdCopyTo(c)
    \/ \E c \in DOMAIN rdCons : RdPrefetch(c)
    \/ \E c \in DOMAIN rdCons : RdReturn(c)

\* the steps of checkAndTriggerPrefetch that a reader with a prefetcher takes
RdPrefetching ==
    \/ \E c \in DOMAIN rdCons : RdPrefetchInMap(c)
    \/ \E c \in DOMAIN rdCons : RdPrefetchInStore(c)

RdDispatcher == RdDispReceive \/ RdDispCheck \/ RdDispStart \/ RdDispDone

RdWorker ==
    \/ \E t \in 1..Len(rdTransfers) : RdWorkerLoop(t)
    \/ \E t \in 1..Len(rdTransfers) : RdWorkerRead(t)
    \/ \E t \in 1..Len(rdTransfers) : RdWorkerComplete(t)
    \/ \E t \in 1..Len(rdTransfers) : RdWorkerPut(t)
    \/ \E t \in 1..Len(rdTransfers) : RdWorkerRemove(t)
    \/ \E t \in 1..Len(rdTransfers) : RdWorkerTerminate(t)
    \/ \E t \in 1..Len(rdTransfers) : RdWorkerGiveBack(t)

\* the step of a worker whose base read failed
RdWorkerFailure == \E t \in 1..Len(rdTransfers) : RdWorkerSetError(t)

RdRelease ==
    \/ RdReleaseTerminate \/ RdReleaseCloseRequests \/ RdReleaseCloseReaders
    \/ RdReleaseStopAll \/ RdReleaseWait \/ RdReleasePurge

\* the reader NewAsyncCacheThroughReader returns (lines 45-86)
RdNew(callers, numReaders, maxTransfers) ==
    [cons |-> [c \in callers |-> RdIdle],
     transfers |-> <<>>,
     map |-> [b \in RdBlocks |-> 0],
     requests |-> [q |-> <<>>, closed |-> FALSE],
     avail |-> [q |-> [i \in 1..numReaders |-> i], closed |-> FALSE],
     disp |-> [pc |-> "recv", t |-> 0],
     workers |-> [t \in 1..maxTransfers |->
                    [pc |-> "none", br |-> 0, total |-> 0, cur |-> 0, eof |-> FALSE]]]

NoPass == [n |-> 1, data |-> <<>>, err |-> "nil", cached |-> {}, transferred |-> {}]

\* A second reader of the same file is made with the cache store of the one
\* before, when that one has been released and its goroutines have ended
\* (io_test.go, lines 628-646).
RdSecondPass ==
    LET new == RdNew(DOMAIN rdCons, rdNumReaders, rdEnv.maxTransfers)
    IN  /\ rdEnv.cache
        /\ rdPass.n = 1
        /\ rdRel = "done"
        /\ \A c \in DOMAIN rdCons : rdCons[c].pc = "idle"
        /\ \A t \in DOMAIN rdWorkers : rdWorkers[t].pc \in {"none", "done"}
        /\ rdPass' = [n |-> 2, data |-> rdDelivered, err |-> rdCons[1].res.err,
                      cached |-> DcKeysOf(dcIndex),
                      transferred |-> {rdTransfers[t].blockID : t \in 1..Len(rdTransfers)}]
        /\ rdCons' = new.cons
        /\ rdTransfers' = new.transfers
        /\ rdMap' = new.map
        /\ rdRequests' = new.requests
        /\ rdAvail' = new.avail
        /\ rdDisp' = new.disp
        /\ rdWorkers' = new.workers
        /\ rdStore' = <<>>
        /\ rdPrefetched' = {}
        /\ rdTerminate' = FALSE
        /\ rdLastError' = "nil"
        /\ rdRel' = "idle"
        /\ rdAtRelease' = {}
        /\ rdDelivered' = <<>>
        /\ UNCHANGED <<rdSize, rdNumReaders, rdEnv>>
        /\ UNCHANGED <<bwVars, awVars, dcVars, auxVars>>

\* the steps that a reader with a cache store takes
RdCaching ==
    \/ \E c \in DOMAIN rdCons : RdCacheGet(c)
    \/ \E t \in 1..Len(rdTransfers) : RdWorkerCachePut(t)
    \/ RdSecondPass

\* the reader after NewAsyncCacheThroughReader, and its environment: the
\* callers, how they call ReadAt, whether Release is called
\* NewAsyncCacheThroughReader (lines 40-103) in an environment env
RdInitEnv(callers, sizes, readers, maxTransfers, env) ==
    /\ rdSize \in sizes
    /\ rdNumReaders \in readers
    /\ rdCons = RdNew(callers, rdNumReaders, maxTransfers).cons
    /\ rdTransfers = RdNew(callers, rdNumReaders, maxTransfers).transfers
    /\ rdMap = RdNew(callers, rdNumReaders, maxTransfers).map
    /\ rdRequests = RdNew(callers, rdNumReaders, maxTransfers).requests
    /\ rdAvail = RdNew(callers, rdNumReaders, maxTransfers).avail
    /\ rdDisp = RdNew(callers, rdNumReaders, maxTransfers).disp
    /\ rdWorkers = RdNew(callers, rdNumReaders, maxTransfers).workers
    /\ rdStore = <<>>
    /\ rdPrefetched = {}
    /\ rdTerminate = FALSE
    /\ rdLastError = "nil"
    /\ rdRel = "idle"
    /\ rdAtRelease = {}
    /\ rdDelivered = <<>>
    /\ rdEnv = env
    /\ rdPass = NoPass

\* the environment: the calls made, whether Release is called, whether base
\* reads can fail, the capacity of blockRequests, whether there is a cache
RdEnv(seq, lens, offsets, maxCalls, maxTransfers, release, faulty, requestsCap, cache) ==
    [seq |-> seq, lens |-> lens, offsets |-> offsets,
     maxCalls |-> maxCalls, maxTransfers |-> maxTransfers,
     release |-> release, faulty |-> faulty, requestsCap |-> requestsCap,
     cache |-> cache]

\* base reads that do not fail, the request channel of the code, no cache
RdInitState(seq, callers, sizes, readers, lens, offsets, maxCalls, maxTransfers, release) ==
    RdInitEnv(callers, sizes, readers, maxTransfers,
              RdEnv(seq, lens, offsets, maxCalls, maxTransfers, release,
                    FALSE, blockRequestsCap, FALSE))

\* the reader of a specification that does not exercise it
RdUnused == RdInitState(TRUE, {1}, {0}, {1}, {1}, {0}, 0, 1, FALSE)

----------------------------------------------------------------------------
(* RAMBuffer, RAMBufferEntryGroup (src/unnamed/part_002)                   *)

\* bounds of the RAM-buffer model
RbMaxOps == 5

\* the size caps, the groups that can be created, group names, entry keys, data lengths and producers tried
RbSizeCaps == {1, 2}
RbGroupIds == {1, 2, 3}
RbNames == {1, 2}
RbKeys == {1, 2}
RbLens == 0..2
RbProcSet == {1, 2}

\* entryMap[key] of a key that is not in the map
RbNoEntry == -1

RbIdle == [pc |-> "idle", group |-> 0, key |-> 0, len |-> 0]

RbNoOp == [op |-> "none", proc |-> 0, group |-> 0, key |-> 0, len |-> 0, err |-> FALSE]

NewRAMBufferEntryGroup(name) ==
    [name |-> name, size |-> 0, entryMap |-> [k \in RbKeys |-> RbNoEntry]]

\* the sum of f over the set S
RECURSIVE RbSum(_, _)
RbSum(f, S) ==
    IF S = {} THEN 0 ELSE LET x == CHOOSE y \in S : TRUE IN f[x] + RbSum(f, S \ {x})

\* the names that have a group in buffer.entryGroupMap
RbNamesOf(map) == {n \in RbNames : map[n] # 0}

\* the loop of CreateEntry, GetTotalEntrySize, GetAvailableSize: the size
\* counters of the groups in entryGroupMap, added up
RbTotalSize(groups, map) ==
    RbSum([n \in RbNamesOf(map) |-> groups[map[n]].size], RbNamesOf(map))

\* the keys of a group's entryMap
RbKeysOf(group) == {k \in RbKeys : group.entryMap[k] # RbNoEntry}

\* CreateEntry's test of the available size against len(data)
RbFitsAlways(avail, len) == TRUE

RbFits(avail, len) == avail >= len

\* group.entryMap[key] = entry; group.size += len(data)
RbInsert(group, key, len) ==
    [group EXCEPT !.entryMap[key] = len, !.size = @ + len]

\* DeleteEntry, PopEntry: the size counter is lowered by the entry's size when
\* the key is in the map; delete(group.entryMap, key)
RbDelete(group, key) ==
    [group EXCEPT !.entryMap[key] = RbNoEntry,
                  !.size = IF group.entryMap[key] # RbNoEntry
                           THEN @ - group.entryMap[key] ELSE @]

\* deleteAllEntriesWithoutBufferLock, and the body of DeleteAllEntries
RbDeleteAll(group) ==
    [group EXCEPT !.entryMap = [k \in RbKeys |-> RbNoEntry],
                  !.size = @ - RbSum([k \in RbKeysOf(group) |-> group.entryMap[k]],
                                     RbKeysOf(group))]

\* buffer.condition.Broadcast(): every goroutine in condition.Wait() goes on
\* with the next round of its loop
RbBroadcastNone(procs) == procs

RbBroadcast(procs) ==
    [p \in DOMAIN procs |->
        IF procs[p].pc = "wait" THEN [procs[p] EXCEPT !.pc = "loop"] ELSE procs[p]]

\* RAMBuffer.CreateEntryGroup(name): a new group takes the name
RbCreateEntryGroup(name) ==
    /\ rbOps < RbMaxOps
    /\ Len(rbGroups) < Cardinality(RbGroupIds)
    /\ rbOps' = rbOps + 1
    /\ rbGroups' = Append(rbGroups, NewRAMBufferEntryGroup(name))
    /\ rbGroupMap' = [rbGroupMap EXCEPT ![name] = Len(rbGroups) + 1]
    /\ rbReplaced' = (rbReplaced \/ rbGroupMap[name] # 0)
    /\ rbLast' = [RbNoOp EXCEPT !.op = "newgroup", !.group = Len(rbGroups) + 1]
    /\ UNCHANGED <<rbSizeCap, rbProcs>>
    /\ UNCHANGED rbOthers

\* RAMBufferEntryGroup.CreateEntry(key, data), its first critical section: data
\* larger than the size cap is refused
RbCreateEntryBegin(p, g, key, len) ==
    /\ rbOps < RbMaxOps
    /\ rbProcs[p].pc = "idle"
    /\ g \in 1..Len(rbGroups)
    /\ rbOps' = rbOps + 1
    /\ IF rbSizeCap < len
       THEN /\ rbLast' = [op |-> "create", proc |-> p, group |-> g, key |-> key,
                          len |-> len, err |-> TRUE]
            /\ UNCHANGED rbProcs
       ELSE /\ rbLast' = [op |-> "begin", proc |-> p, group |-> g, key |-> key,
                          len |-> len, err |-> FALSE]
            /\ rbProcs' = [rbProcs EXCEPT ![p] = [pc |-> "loop", group |-> g,
                                                  key |-> key, len |-> len]]
    /\ UNCHANGED <<rbSizeCap, rbGroups, rbGroupMap, rbReplaced>>
    /\ UNCHANGED rbOthers

\* one round of CreateEntry's loop, under buffer.mutex: insert the entry when
\* it fits, otherwise condition.Wait()
RbCreateEntryLoop(p) ==
    /\ rbProcs[p].pc = "loop"
    /\ LET k == rbProcs[p]
           avail == rbSizeCap - RbTotalSize(rbGroups, rbGroupMap)
       IN  IF RbFits(avail, k.len)
           THEN /\ rbGroups' = [rbGroups EXCEPT ![k.group] = RbInsert(@, k.key, k.len)]
                /\ rbProcs' = [rbProcs EXCEPT ![p] = RbIdle]
                /\ rbLast' = [op |-> "create", proc |-> p, group |-> k.group,
                              key |-> k.key, len |-> k.len, err |-> FALSE]
           ELSE /\ rbProcs' = [rbProcs EXCEPT ![p].pc = "wait"]
                /\ rbLast' = [op |-> "wait", proc |-> p, group |-> k.group,
                              key |-> k.key, len |-> k.len, err |-> FALSE]
                /\ UNCHANGED rbGroups
    /\ UNCHANGED <<rbSizeCap, rbGroupMap, rbReplaced, rbOps>>
    /\ UNCHANGED rbOthers

\* RAMBufferEntryGroup.DeleteEntry(key); the history of this and of the other
\* deletions records in len the bytes of the entries that were deleted
RbDeleteEntry(g, key) ==
    /\ rbOps < RbMaxOps
    /\ g \in 1..Len(rbGroups)
    /\ rbOps' = rbOps + 1
    /\ rbGroups' = [rbGroups EXCEPT ![g] = RbDelete(@, key)]
    /\ rbProcs' = RbBroadcast(rbProcs)
    /\ rbLast' = [RbNoOp EXCEPT !.op = "delete", !.group = g, !.key = key,
                                !.len = rbGroups[g].entryMap[key]]
    /\ UNCHANGED <<rbSizeCap, rbGroupMap, rbReplaced>>
    /\ UNCHANGED rbOthers

\* RAMBufferEntryGroup.PopEntry(key): the entry is returned (len: its size,
\* err: there was none)
RbPopEntry(g, key) ==
    /\ rbOps < RbMaxOps
    /\ g \in 1..Len(rbGroups)
    /\ rbOps' = rbOps + 1
    /\ rbGroups' = [rbGroups EXCEPT ![g] = RbDelete(@, key)]
    /\ rbProcs' = RbBroadcast(rbProcs)
    /\ rbLast' = [RbNoOp EXCEPT !.op = "pop", !.group = g, !.key = key,
                                !.len = rbGroups[g].entryMap[key],
                                !.err = (rbGroups[g].entryMap[key] = RbNoEntry)]
    /\ UNCHANGED <<rbSizeCap, rbGroupMap, rbReplaced>>
    /\ UNCHANGED rbOthers

\* RAMBufferEntryGroup.DeleteAllEntries()
RbDeleteAllEntries(g) ==
    /\ rbOps < RbMaxOps
    /\ g \in 1..Len(rbGroups)
    /\ rbOps' = rbOps + 1
    /\ rbGroups' = [rbGroups EXCEPT ![g] = RbDeleteAll(@)]
    /\ rbProcs' = RbBroadcast(rbProcs)
    /\ rbLast' = [RbNoOp EXCEPT !.op = "deleteall", !.group = g,
                                !.len = rbGroups[g].size - RbDeleteAll(rbGroups[g]).size]
    /\ UNCHANGED <<rbSizeCap, rbGroupMap, rbReplaced>>
    /\ UNCHANGED rbOthers

\* RAMBuffer.DeleteEntryGroup(name)
RbDeleteEntryGroup(name) ==
    /\ rbOps < RbMaxOps
    /\ rbOps' = rbOps + 1
    /\ rbGroups' = IF rbGroupMap[name] # 0
                   THEN [rbGroups EXCEPT ![rbGroupMap[name]] = RbDeleteAll(@)]
                   ELSE rbGroups
    /\ rbGroupMap' = [rbGroupMap EXCEPT ![name] = 0]
    /\ rbProcs' = RbBroadcast(rbProcs)
    /\ rbLast' = [RbNoOp EXCEPT !.op = "deletegroup", !.group = rbGroupMap[name],
                                !.len = IF rbGroupMap[name] # 0
                                        THEN rbGroups[rbGroupMap[name]].size
                                                 - RbDeleteAll(rbGroups[rbGroupMap[name]]).size
                                        ELSE 0]
    /\ UNCHANGED <<rbSizeCap, rbReplaced>>
    /\ UNCHANGED rbOthers

\* RAMBuffer.DeleteAllEntryGroups(), which is Release() too
RbDeleteAllEntryGroups ==
    /\ rbOps < RbMaxOps
    /\ rbOps' = rbOps + 1
    /\ rbGroups' = [g \in 1..Len(rbGroups) |->
                       IF \E n \in RbNames : rbGroupMap[n] = g
                       THEN RbDeleteAll(rbGroups[g]) ELSE rbGroups[g]]
    /\ rbGroupMap' = [n \in RbNames |-> 0]
    /\ rbProcs' = RbBroadcast(rbProcs)
    /\ rbLast' = [RbNoOp EXCEPT !.op = "deletegroups",
                                !.len = RbTotalSize(rbGroups, rbGroupMap)
                                            - RbTotalSize(rbGroups', rbGroupMap)]
    /\ UNCHANGED <<rbSizeCap, rbReplaced>>
    /\ UNCHANGED rbOthers

\* NewRAMBuffer(sizeCap)
RbInitState(caps, procs) ==
    /\ rbSizeCap \in caps
    /\ rbGroups = <<>>
    /\ rbGroupMap = [n \in RbNames |-> 0]
    /\ rbProcs = [p \in procs |-> RbIdle]
    /\ rbLast = RbNoOp
    /\ rbReplaced = FALSE
    /\ rbOps = 0

\* the buffer of a specification that does not exercise it
RbUnused == RbInitState({1}, {})

RbNewGroup == \E name \in RbNames : RbCreateEntryGroup(name)

RbCreateBegin ==
    \E p \in DOMAIN rbProcs, g \in RbGroupIds, key \in RbKeys, len \in RbLens :
        RbCreateEntryBegin(p, g, key, len)

RbCreateLoop == \E p \in DOMAIN rbProcs : RbCreateEntryLoop(p)

RbDeleteOne == \E g \in RbGroupIds, key \in RbKeys : RbDeleteEntry(g, key)

RbPop == \E g \in RbGroupIds, key \in RbKeys : RbPopEntry(g, key)

RbDeleteEntries == \E g \in RbGroupIds : RbDeleteAllEntries(g)

RbDeleteGroup == \E name \in RbNames : RbDeleteEntryGroup(name)

----------------------------------------------------------------------------
(* InodeManager (src/inode/inode.go)                                       *)

\* bound of the inode-manager model: the calls made
InoMaxCalls == 4

\* the paths asked for; a path is the sequence of its names, <<>> is "/"
InoDepths == 0..2
InoNames == {1, 2}
InoPaths == UNION {[1..n -> InoNames] : n \in InoDepths}

\* The inode numbers are pairs <<u, i>> standing for u * 10^14 + i, for
\* i < 10^14: 9000000000000000000 is <<90000, 0>> and 9000100000000000000
\* is <<90001, 0>>.
vpathEntryIDStart == 90000
overlayEntryIDStart == 90001

\* start + inc
InoAdd(start, inc) == <<start, inc>>

NoInode == <<0, 0>>

\* a Go map: the map that was made, or the nil map (the zero value of a map)
InoEmptyMap == [nil |-> FALSE, ids |-> [p \in InoPaths |-> NoInode]]

NilMap == [nil |-> TRUE, ids |-> [p \in InoPaths |-> NoInode]]

\* id, ok := m[path] (a nil map has no keys)
InoLookup(m, path) == m.ids[path]

\* The body shared by GetInodeIDForVPathEntry and GetInodeIDForOverlayEntry,
\* under manager.mutex: the remembered inode, or start + inc with inc raised
\* and the inode stored; storing into a nil map panics after inc was raised.
InoGetFresh(m, inc, start, path) ==
    IF m.nil
    THEN [id |-> NoInode, panic |-> TRUE, map |-> m, inc |-> inc + 1]
    ELSE [id |-> InoAdd(start, inc), panic |-> FALSE,
          map |-> [m EXCEPT !.ids[path] = InoAdd(start, inc)], inc |-> inc + 1]

InoGet(m, inc, start, path) ==
    IF InoLookup(m, path) # NoInode
    THEN [id |-> InoLookup(m, path), panic |-> FALSE, map |-> m, inc |-> inc]
    ELSE InoGetFresh(m, inc, start, path)

\* InodeManager.GetInodeIDForVPathEntry(vpath)
GetInodeIDForVPathEntry(path) ==
    /\ Len(inoCalls) < InoMaxCalls
    /\ LET r == InoGet(inoVPathMap, inoVPathInc, vpathEntryIDStart, path)
       IN  /\ inoVPathMap' = r.map
           /\ inoVPathInc' = r.inc
           /\ inoCalls' = Append(inoCalls, [kind |-> "vpath", path |-> path,
                                            id |-> r.id, panic |-> r.panic])
    /\ UNCHANGED <<inoOverlayInc, inoOverlayMap>>
    /\ UNCHANGED inoOthers

\* InodeManager.GetInodeIDForOverlayEntry(irodsPath)
GetInodeIDForOverlayEntry(path) ==
    /\ Len(inoCalls) < InoMaxCalls
    /\ LET r == InoGet(inoOverlayMap, inoOverlayInc, overlayEntryIDStart, path)
       IN  /\ inoOverlayMap' = r.map
           /\ inoOverlayInc' = r.inc
           /\ inoCalls' = Append(inoCalls, [kind |-> "overlay", path |-> path,
                                            id |-> r.id, panic |-> r.panic])
    /\ UNCHANGED <<inoVPathInc, inoVPathMap>>
    /\ UNCHANGED inoOthers

\* NewInodeManager(): vpathEntryIDMap is made, overlayEntryIDMap is not
InoInitState ==
    /\ inoVPathInc = 0
    /\ inoOverlayInc = 0
    /\ inoVPathMap = InoEmptyMap
    /\ inoOverlayMap = NilMap
    /\ inoCalls = <<>>

InoVPath == \E path \in InoPaths : GetInodeIDForVPathEntry(path)

InoOverlay == \E path \in InoPaths : GetInodeIDForOverlayEntry(path)

----------------------------------------------------------------------------
(* FileBlockHelper (src/utils/file_block_helper.go)                        *)

\* bounds of the arguments tried
FbMaxBlockSize == 3
FbMaxOffset == 7
FbMaxLength == 6
FbMaxBlockID == 4

FbNoCall == [op |-> "none", blockSize |-> 0, offset |-> 0, length |-> 0, blockID |-> 0,
             out |-> <<0, 0>>]

\* helper.GetBlockStartOffset(blockID) of a helper made with blockSize
FbBlockStartOffset(blockSize, blockID) == blockID * blockSize

\* helper.GetBlockRange(offset, length, blockID): <<start offset, length>>
GetBlockRangeOpen(blockSize, offset, length, blockID) ==
    LET blockStartOffset == FbBlockStartOffset(blockSize, blockID)
    IN  IF blockStartOffset + blockSize < offset \/ blockStartOffset > offset + length
        THEN <<0, 0>>
        ELSE LET startOffset == Max(blockStartOffset, offset)
                 endOffset == Min(blockStartOffset + blockSize, offset + length)
             IN  <<startOffset, endOffset - startOffset>>

GetBlockRange(blockSize, offset, length, blockID) ==
    LET blockStartOffset == FbBlockStartOffset(blockSize, blockID)
    IN  IF blockStartOffset + blockSize <= offset \/ blockStartOffset >= offset + length
        THEN <<0, 0>>
        ELSE LET startOffset == Max(blockStartOffset, offset)
                 endOffset == Min(blockStartOffset + blockSize, offset + length)
             IN  <<startOffset, endOffset - startOffset>>

\* FileBlockHelper.GetBlockIDForOffset(offset) of a helper with blockSize
FbBlockIDForOffset(blockSize, offset) == GoDiv(offset, blockSize)

\* a GetFirstAndLastBlockID whose last block is that of offset + length
GetFirstAndLastBlockIDPastEnd(blockSize, offset, length) ==
    LET first == FbBlockIDForOffset(blockSize, offset)
        last == FbBlockIDForOffset(blockSize, offset + length)
    IN  <<first, IF last < first THEN first ELSE last>>

\* FileBlockHelper.GetFirstAndLastBlockID(offset, length)
GetFirstAndLastBlockID(blockSize, offset, length) ==
    LET first == FbBlockIDForOffset(blockSize, offset)
        last == FbBlockIDForOffset(blockSize, offset + (length - 1))
    IN  <<first, IF last < first THEN first ELSE last>>

\* FileBlockHelper.GetBlockIDs(offset, length): the ids from first to last
GetBlockIDs(blockSize, offset, length) ==
    LET fl == GetFirstAndLastBlockID(blockSize, offset, length)
    IN  [i \in 1..(fl[2] - fl[1] + 1) |-> fl[1] + i - 1]

\* a call of GetFirstAndLastBlockID
FbGetFirstAndLastBlockID(blockSize, offset, length) ==
    /\ fbCall' = [op |-> "firstlast", blockSize |-> blockSize, offset |-> offset,
                  length |-> length, blockID |-> 0,
                  out |-> GetFirstAndLastBlockID(blockSize, offset, length)]
    /\ UNCHANGED fbOthers

\* a call of GetBlockRange on a helper made by NewFileBlockHelper(blockSize)
FbGetBlockRange(blockSize, offset, length, blockID) ==
    /\ fbCall' = [op |-> "range", blockSize |-> blockSize, offset |-> offset,
                  length |-> length, blockID |-> blockID,
                  out |-> GetBlockRange(blockSize, offset, length, blockID)]
    /\ UNCHANGED fbOthers

FbInitState == fbCall = FbNoCall

FbRange ==
    \E blockSize \in 1..FbMaxBlockSize, offset \in 0..FbMaxOffset,
       length \in 1..FbMaxLength, blockID \in 0..FbMaxBlockID :
        FbGetBlockRange(blockSize, offset, length, blockID)

FbFirstAndLast ==
    \E blockSize \in 1..FbMaxBlockSize, offset \in 0..FbMaxOffset,
       length \in 1..FbMaxLength :
        FbGetFirstAndLastBlockID(blockSize, offset, length)

----------------------------------------------------------------------------
(* Prefetcher (src/unnamed/part_010, lines 56-112)                         *)

\* bounds of the prefetcher model: block sizes, file sizes, offsets, calls
PfMaxBlockSize == 4
PfMaxSize == 5
PfMaxOffset == 6
PfMaxCalls == 3

PfProcSet == {1, 2}

\* int(float32(blockSize) * prefetchTriggerRatio) with the ratio 0.3: the
\* conversion to int drops the fraction (lines 90-91)
PfTriggerPoint(blockSize) == (blockSize * 3) \div 10

PfInBlockOffset(blockSize, offset) ==
    offset - FbBlockStartOffset(blockSize, FbBlockIDForOffset(blockSize, offset))

\* helper.GetLastBlockID(size) (file_block_helper.go, lines 90-92)
PfLastBlockID(blockSize, size) == FbBlockIDForOffset(blockSize, size - 1)

\* targetBlockID (lines 95-99)
PfTargetBlockID(blockSize, offset, size) ==
    IF FbBlockIDForOffset(blockSize, offset) >= PfLastBlockID(blockSize, size)
    THEN 0
    ELSE FbBlockIDForOffset(blockSize, offset) + 1

PfIdle == [pc |-> "idle", offset |-> 0, target |-> 0]

\* Determine(offset, size) up to prefetcher.mutex.Lock() (lines 83-101)
PfDetermineBegin(p, offset) ==
    /\ pfProcs[p].pc = "idle"
    /\ pfOps < PfMaxCalls
    /\ pfOps' = pfOps + 1
    /\ IF PfInBlockOffset(pfBlockSize, offset) < PfTriggerPoint(pfBlockSize)
       THEN /\ pfCalls' = Append(pfCalls, [offset |-> offset, out |-> <<>>])
            /\ UNCHANGED pfProcs
       ELSE /\ pfProcs' = [pfProcs EXCEPT ![p] =
                    [pc |-> "lock", offset |-> offset,
                     target |-> PfTargetBlockID(pfBlockSize, offset, pfSize)]]
            /\ UNCHANGED pfCalls
    /\ UNCHANGED <<pfBlockSize, pfSize, pfMap>>
    /\ UNCHANGED pfOthers

\* Determine under the mutex: the look-up in prefetchMap and the insertion
\* (lines 101-111)
PfDetermineLocked(p) ==
    LET k == pfProcs[p]
    IN  /\ k.pc = "lock"
        /\ pfMap' = pfMap \cup {k.target}
        /\ pfCalls' = Append(pfCalls,
                [offset |-> k.offset,
                 out |-> IF k.target \in pfMap THEN <<>> ELSE <<k.target>>])
        /\ pfProcs' = [pfProcs EXCEPT ![p] = PfIdle]
    /\ UNCHANGED <<pfBlockSize, pfSize, pfOps>>
    /\ UNCHANGED pfOthers

\* NewPrefetcher(blockSize) (lines 74-80) and the file the callers read
PfInitState(blockSizes, sizes, procs) ==
    /\ pfBlockSize \in blockSizes
    /\ pfSize \in sizes
    /\ pfMap = {}
    /\ pfProcs = [p \in procs |-> PfIdle]
    /\ pfCalls = <<>>
    /\ pfOps = 0

PfUnused == PfInitState({1}, {0}, {1})

PfBegin == \E p \in DOMAIN pfProcs, offset \in 0..PfMaxOffset : PfDetermineBegin(p, offset)

PfLocked == \E p \in DOMAIN pfProcs : PfDetermineLocked(p)

----------------------------------------------------------------------------
(* AsyncWriter over a RAMBuffer (src/io/async_writer.go)                   *)

\* bounds of the model: the calls made, the offsets written at
OwMaxOps == 4
OwMaxOffset == 1

\* entryMap[key] of a key that is not in the entry group
OwNoData == <<>>

OwIdle == [pc |-> "idle", key |-> -1]

OwWorkerIdle == [pc |-> "recv", key |-> -1, data |-> OwNoData]

\* WriteAt(data, offset) up to the send: entryGroup.CreateEntry(entryKey, data),
\* which replaces the entry of a key in use, and writeWaitTasks.Add(1) (lines
\* 107-117).  The key is the offset in decimal digits, so two calls at one
\* offset use one key.  The data of a call is one byte, the number of the call.
OwWriteAtCreate(offset) ==
    /\ owCaller.pc = "idle"
    /\ owOps < OwMaxOps
    /\ owOps' = owOps + 1
    /\ owEntries' = [owEntries EXCEPT ![offset] = <<owOps + 1>>]
    /\ owTasks' = owTasks + 1
    /\ owCaller' = [pc |-> "send", key |-> offset]
    /\ UNCHANGED <<owQueue, owErrors, owInner, owWorker, owQueued, owDone, owFaulty>>
    /\ UNCHANGED owOthers

\* writer.writeQueue.In() <- entryKey, on a channel without a bound, and the
\* return of WriteAt (lines 118-127)
OwWriteAtSend ==
    /\ owCaller.pc = "send"
    /\ owQueue' = Append(owQueue, owCaller.key)
    /\ owQueued' = owQueued + 1
    /\ owCaller' = OwIdle
    /\ UNCHANGED <<owEntries, owTasks, owErrors, owInner, owWorker, owDone, owOps, owFaulty>>
    /\ UNCHANGED owOthers

\* Flush() is called: writeWaitTasks.Wait() begins (lines 141, 172-174)
OwFlushWait ==
    /\ owCaller.pc = "idle"
    /\ owOps < OwMaxOps
    /\ owOps' = owOps + 1
    /\ owCaller' = [pc |-> "flush", key |-> -1]
    /\ UNCHANGED <<owEntries, owQueue, owTasks, owErrors, owInner, owWorker,
                   owQueued, owDone, owFaulty>>
    /\ UNCHANGED owOthers

\* writeWaitTasks.Wait() returns when the counter is zero, and Flush returns
\* (lines 143-150)
OwFlushReturn ==
    /\ owCaller.pc = "flush"
    /\ owTasks = 0
    /\ owCaller' = OwIdle
    /\ UNCHANGED <<owEntries, owQueue, owTasks, owErrors, owInner, owWorker,
                   owQueued, owDone, owOps, owFaulty>>
    /\ UNCHANGED owOthers

\* backgroundWriteTask: outData := <-writer.writeQueue.Out() (line 188); the
\* key parses back to the offset, as WriteAt made it from one (lines 197-202)
OwWorkerRecv ==
    /\ owWorker.pc = "recv"
    /\ owQueue # <<>>
    /\ owWorker' = [pc |-> "pop", key |-> Head(owQueue), data |-> OwNoData]
    /\ owQueue' = Tail(owQueue)
    /\ UNCHANGED <<owEntries, owTasks, owErrors, owInner, owCaller,
                   owQueued, owDone, owOps, owFaulty>>
    /\ UNCHANGED owOthers

\* entryGroup.PopEntry(key); without an entry addAsyncError and continue
\* (lines 204-210)
OwWorkerPop ==
    /\ owWorker.pc = "pop"
    /\ IF owEntries[owWorker.key] = OwNoData
       THEN /\ owErrors' = owErrors + 1
            /\ owWorker' = OwWorkerIdle
            /\ UNCHANGED owEntries
       ELSE /\ owWorker' = [owWorker EXCEPT !.pc = "write",
                                           !.data = owEntries[owWorker.key]]
            /\ owEntries' = [owEntries EXCEPT ![owWorker.key] = OwNoData]
            /\ UNCHANGED owErrors
    /\ UNCHANGED <<owQueue, owTasks, owInner, owCaller, owQueued, owDone, owOps, owFaulty>>
    /\ UNCHANGED owOthers

\* fileHandle.WriteAt(data, offset): after an error addAsyncError and
\* continue, otherwise writeWaitTasks.Done() (lines 222-234)
OwWorkerWrite(ok) ==
    /\ owWorker.pc = "write"
    /\ ok \/ owFaulty
    /\ owWorker' = OwWorkerIdle
    /\ IF ok
       THEN /\ owInner' = Append(owInner, [offset |-> owWorker.key, data |-> owWorker.data])
            /\ owTasks' = owTasks - 1
            /\ owDone' = owDone + 1
            /\ UNCHANGED owErrors
       ELSE /\ owErrors' = owErrors + 1
            /\ UNCHANGED <<owInner, owTasks, owDone>>
    /\ UNCHANGED <<owEntries, owQueue, owCaller, owQueued, owOps, owFaulty>>
    /\ UNCHANGED owOthers

\* NewAsyncWriter (lines 33-55): an empty entry group, an empty queue, and
\* the goroutine of backgroundWriteTask
OwInitState(offsets, faulty) ==
    /\ owEntries = [k \in offsets |-> OwNoData]
    /\ owQueue = <<>>
    /\ owTasks = 0
    /\ owErrors = 0
    /\ owInner = <<>>
    /\ owWorker = OwWorkerIdle
    /\ owCaller = OwIdle
    /\ owQueued = 0
    /\ owDone = 0
    /\ owOps = 0
    /\ owFaulty \in faulty

OwUnused == OwInitState({0}, {FALSE})

OwWriteAt == (\E offset \in DOMAIN owEntries : OwWriteAtCreate(offset)) \/ OwWriteAtSend

OwFlush == OwFlushWait \/ OwFlushReturn

OwWorker == OwWorkerRecv \/ OwWorkerPop \/ (\E ok \in BOOLEAN : OwWorkerWrite(ok))

----------------------------------------------------------------------------
(* VPathManager (src/vpath/vpath.go, src/vpath/mapping.go, entry.go)       *)

\* the virtual paths (sequences of names, <<>> is "/"), the remote paths, the
\* numbers of mappings given
VpPaths == {p \in InoPaths : Len(p) < 2 \/ p[1] = 1}
VpIrodsPaths == {1, 2}
VpLens == 1..2

\* what Stat finds at a remote path: an entry (a file or a directory), a
\* file-not-found error, or another error
VpStats == {"file", "dir", "missing", "error"}

VPathMappings ==
    [irodsPath : VpIrodsPaths, mappingPath : VpPaths, resourceType : {"file", "dir"},
     readOnly : {FALSE}, createDir : BOOLEAN, ignoreNotExistError : BOOLEAN]

\* utils.GetParentDirs(path): the ancestors of path, "/" first
GetParentDirs(path) == [i \in 1..Len(path) |-> SubSeq(path, 1, i - 1)]

\* ValidateVPathMappings(mappings): no mapping path is used twice, and there
\* is a mapping (every path of VpPaths and VpIrodsPaths is absolute)
ValidateVPathMappings(mappings) ==
    /\ \A i, j \in 1..Len(mappings) :
           mappings[i].mappingPath = mappings[j].mappingPath => i = j
    /\ Len(mappings) # 0

\* the VPathEntry of a virtual directory made by buildOne
VpVirtualDirEntry(path, inodeID) ==
    [type |-> "virtual", path |-> path, irodsPath |-> 0, readOnly |-> TRUE,
     id |-> inodeID, irodsEntry |-> "nil", dirEntries |-> <<>>]

\* NewVPathEntryFromIRODSFSEntry(path, irodsPath, irodsEntry, readonly)
NewVPathEntryFromIRODSFSEntry(path, irodsPath, irodsEntry, readonly) ==
    [type |-> "irods", path |-> path, irodsPath |-> irodsPath, readOnly |-> readonly,
     id |-> NoInode, irodsEntry |-> irodsEntry, dirEntries |-> <<>>]

\* append entry n to the DirEntries of the entry at parentPath, when there is one
VpAddToParent(objs, entries, parentPath, n) ==
    IF entries[parentPath] # 0
    THEN [objs EXCEPT ![entries[parentPath]].dirEntries = Append(@, n)]
    ELSE objs

\* buildOne, its first loop from parentDirs[idx] on: a virtual directory is
\* made for every ancestor that has no entry; an ancestor whose entry is not a
\* virtual directory ends buildOne with an error
RECURSIVE VpAddParents(_, _, _)
VpAddParents(st, parentDirs, idx) ==
    IF idx > Len(parentDirs) THEN st
    ELSE LET parentDir == parentDirs[idx]
         IN  IF st.entries[parentDir] # 0
             THEN IF st.objs[st.entries[parentDir]].type # "virtual"
                  THEN [st EXCEPT !.ret = "exists"]
                  ELSE VpAddParents(st, parentDirs, idx + 1)
             ELSE LET r == InoGet(st.inoMap, st.inoInc, vpathEntryIDStart, parentDir)
                      n == Len(st.objs) + 1
                      objs1 == Append(st.objs, VpVirtualDirEntry(parentDir, r.id))
                      entries1 == [st.entries EXCEPT ![parentDir] = n]
                      objs2 == IF idx # 1
                               THEN VpAddToParent(objs1, entries1, parentDirs[idx - 1], n)
                               ELSE objs1
                  IN  VpAddParents([st EXCEPT !.objs = objs2, !.entries = entries1,
                                              !.inoMap = r.map, !.inoInc = r.inc,
                                              !.inoCalls = Append(@,
                                                  [kind |-> "vpath", path |-> parentDir,
                                                   id |-> r.id, panic |-> r.panic])],
                                   parentDirs, idx + 1)

\* buildOne, "add entry" and "add empty entry": the entry of the mapping is put
\* at its mapping path and appended to the entries of its parent directory
VpAddLeaf(st, mapping, parentDirs, irodsEntry) ==
    LET n == Len(st.objs) + 1
        objs1 == Append(st.objs,
                    NewVPathEntryFromIRODSFSEntry(mapping.mappingPath, mapping.irodsPath,
                                                  irodsEntry, mapping.readOnly))
        entries1 == [st.entries EXCEPT ![mapping.mappingPath] = n]
    IN  [st EXCEPT !.entries = entries1, !.leaf = TRUE,
                   !.objs = IF Len(parentDirs) > 0
                            THEN VpAddToParent(objs1, entries1, parentDirs[Len(parentDirs)], n)
                            ELSE objs1]

\* buildOne after its first loop: Stat, MakeDir when asked for, Stat again.
\* mkdir is the outcome of MakeDir ("ok", "fail"), again that of the second
\* Stat ("ok", "error"). ret is the error returned ("nil": none).
VpStatIgnoreAlways(st, mapping, parentDirs, mkdir, again) ==
    LET found == st.remote[mapping.irodsPath]
        st1 == [st EXCEPT !.stat = found]
    IN  IF found = "missing" THEN st1
        ELSE VpAddLeaf(st1, mapping, parentDirs, IF found = "error" THEN "nil" ELSE found)

VpStat(st, mapping, parentDirs, mkdir, again) ==
    LET found == st.remote[mapping.irodsPath]
        st1 == [st EXCEPT !.stat = found]
    IN  CASE found = "missing" /\ mapping.resourceType = "dir" /\ mapping.createDir ->
                 IF mkdir = "fail"
                 THEN IF mapping.ignoreNotExistError
                      THEN [st1 EXCEPT !.made = "fail"]
                      ELSE [st1 EXCEPT !.made = "fail", !.ret = "makedir"]
                 ELSE VpAddLeaf([st1 EXCEPT !.made = "ok",
                                            !.remote[mapping.irodsPath] = "dir"],
                                mapping, parentDirs,
                                IF again = "error" THEN "nil" ELSE "dir")
          [] found = "missing" /\ ~(mapping.resourceType = "dir" /\ mapping.createDir) ->
                 IF mapping.ignoreNotExistError
                 THEN st1
                 ELSE [st1 EXCEPT !.ret = "notfound"]
          [] found = "error" -> VpAddLeaf(st1, mapping, parentDirs, "nil")
          [] OTHER -> VpAddLeaf(st1, mapping, parentDirs, found)

\* VPathManager.buildOne(mapping)
buildOne(st, mapping, mkdir, again) ==
    LET parentDirs == GetParentDirs(mapping.mappingPath)
        st1 == VpAddParents(st, parentDirs, 1)
    IN  IF st1.ret # "nil" THEN st1 ELSE VpStat(st1, mapping, parentDirs, mkdir, again)

VpNoLast == [idx |-> 0, ret |-> "nil", leaf |-> FALSE, stat |-> "none", made |-> "none"]

\* one round of the loop of build(): buildOne of the next mapping; build
\* returns its error, or nil after the last mapping
VpBuildOne(mkdir, again) ==
    /\ vpResult = "building"
    /\ vpNext <= Len(vpMappings)
    /\ LET st == buildOne([objs |-> vpObjs, entries |-> vpEntries, remote |-> vpRemote,
                           inoMap |-> inoVPathMap, inoInc |-> inoVPathInc,
                           inoCalls |-> inoCalls,
                           ret |-> "nil", leaf |-> FALSE, stat |-> "none", made |-> "none"],
                          vpMappings[vpNext], mkdir, again)
       IN  /\ vpObjs' = st.objs
           /\ vpEntries' = st.entries
           /\ vpRemote' = st.remote
           /\ inoVPathMap' = st.inoMap
           /\ inoVPathInc' = st.inoInc
           /\ inoCalls' = st.inoCalls
           /\ vpLast' = [idx |-> vpNext, ret |-> st.ret, leaf |-> st.leaf,
                         stat |-> st.stat, made |-> st.made]
           /\ vpResult' = IF st.ret # "nil" THEN st.ret
                          ELSE IF vpNext = Len(vpMappings) THEN "ok" ELSE "building"
    /\ vpNext' = vpNext + 1
    /\ UNCHANGED <<vpMappings, inoOverlayInc, inoOverlayMap>>
    /\ UNCHANGED vpOthers

\* NewVPathManager(fsClient, inodeManager, pathMappings), before build() runs
VpInitState(lens, stats) ==
    /\ vpMappings \in UNION {[1..n -> VPathMappings] : n \in lens}
    /\ ValidateVPathMappings(vpMappings)
    /\ vpRemote \in [VpIrodsPaths -> stats]
    /\ vpObjs = <<>>
    /\ vpEntries = [p \in VpPaths |-> 0]
    /\ vpNext = 1
    /\ vpResult = "building"
    /\ vpLast = VpNoLast

\* the manager of a specification that does not exercise it
VpUnused ==
    /\ vpMappings = <<>>
    /\ vpRemote = [p \in VpIrodsPaths |-> "missing"]
    /\ vpObjs = <<>>
    /\ vpEntries = [p \in VpPaths |-> 0]
    /\ vpNext = 1
    /\ vpResult = "ok"
    /\ vpLast = VpNoLast

VpBuild == \E mkdir \in {"ok", "fail"}, again \in {"ok", "error"} : VpBuildOne(mkdir, again)

\* the components a specification of the block stack does not exercise
AuxUnused == RbUnused /\ InoInitState /\ FbInitState /\ VpUnused /\ PfUnused /\ OwUnused

\* the block stack in a specification of another component
CoreUnused == BwInitState(FALSE, {1}) /\ AwInitState /\ RdUnused /\ DcUnused

----------------------------------------------------------------------------
(* The specifications                                                      *)

\* an inner writer that never fails
InitBw ==
    BwInitState(FALSE, 1..BwMaxBufferSize) /\ AwInitState /\ RdUnused /\ DcUnused /\ AuxUnused

NextBw == BwWrite \/ BwDoFlush

InitAw == AwInitState /\ BwInitState(FALSE, {1}) /\ RdUnused /\ DcUnused /\ AuxUnused

NextAw == AwWorker \/ AwWriteAt \/ AwFlush

SpecAw == InitAw /\ [][NextAw]_vars

\* the goroutines are scheduled, and the inner writer's calls return
SpecAwFair == SpecAw /\ WF_vars(AwWorker) /\ WF_vars(AwFlush)

SpecBw == InitBw /\ [][NextBw]_vars

\* the same writer over an inner writer whose calls may return errors
InitBwErr ==
    BwInitState(TRUE, 1..BwMaxBufferSize) /\ AwInitState /\ RdUnused /\ DcUnused /\ AuxUnused

SpecBwErr == InitBwErr /\ [][NextBw]_vars

\* one caller reads the file from its start, each ReadAt starting where the
\* one before ended, until EOF or an error; Release may follow
InitRdSeq ==
    /\ RdInitState(TRUE, {1}, 0..RdMaxSize, {1, 2}, 1..RdMaxBufLen,
                   0..(RdMaxSize + RdMaxBufLen), RdMaxSize + 2,
                   RdSeqMaxTransfers, TRUE)
    /\ BwInitState(FALSE, {1}) /\ AwInitState /\ DcUnused /\ AuxUnused

NextRdSeq == RdReadAt \/ RdPrefetching \/ RdDispatcher \/ RdWorker \/ RdRelease

SpecRdSeq == InitRdSeq /\ [][NextRdSeq]_vars

\* two callers and a call of Release, all concurrent; one base reader
InitRd ==
    /\ RdInitState(FALSE, {1, 2}, {RdMaxSize}, {1}, {1},
                   {0, 1, RdBlockSize}, RdMaxCalls, RdMaxTransfers, TRUE)
    /\ BwInitState(FALSE, {1}) /\ AwInitState /\ DcUnused /\ AuxUnused

\* with one base reader there is no prefetcher
NextRd == RdReadAt \/ RdDispatcher \/ RdWorker \/ RdRelease

SpecRd == InitRd /\ [][NextRd]_vars

\* two callers that read from the one block of a file, with base reads that
\* can fail; Release is not called
InitRdErr ==
    /\ RdInitEnv({1, 2}, {RdBlockSize}, {1}, RdMaxTransfers,
                 RdEnv(FALSE, {1}, {0}, RdMaxCalls, RdMaxTransfers,
                       FALSE, TRUE, blockRequestsCap, FALSE))
    /\ BwInitState(FALSE, {1}) /\ AwInitState /\ DcUnused /\ AuxUnused

NextRdErr ==
    \/ RdReadAt
    \/ RdDispReceive \/ RdDispCheck \/ RdDispStart
    \/ RdWorker \/ RdWorkerFailure

SpecRdErr == InitRdErr /\ [][NextRdErr]_vars

\* one caller calls ReadAt twice at any offsets, also offsets beyond the end
\* of the file; Release is not called and base reads do not fail
InitRdAny ==
    /\ RdInitState(FALSE, {1}, 0..RdMaxSize, {1}, {1, RdMaxBufLen},
                   0..(RdMaxSize + 1), 2, RdMaxTransfers, FALSE)
    /\ BwInitState(FALSE, {1}) /\ AwInitState /\ DcUnused /\ AuxUnused

NextRdAny ==
    \/ RdReadAt
    \/ RdDispReceive \/ RdDispCheck \/ RdDispStart
    \/ RdWorker

SpecRdAny == InitRdAny /\ [][NextRdAny]_vars

\* Callers that read the byte of a one-byte file concurrently, one call each,
\* with one base reader and a request channel of RdFairRequestsCap places;
\* Release is not called and base reads do not fail.
InitRdFair ==
    /\ RdInitEnv(RdFairCallers, {1}, {1}, Cardinality(RdFairCallers),
                 RdEnv(FALSE, {1}, {0}, 1, Cardinality(RdFairCallers),
                       FALSE, FALSE, RdFairRequestsCap, FALSE))
    /\ BwInitState(FALSE, {1}) /\ AwInitState /\ DcUnused /\ AuxUnused

NextRdFair ==
    \/ RdReadAt
    \/ RdDispReceive \/ RdDispCheck \/ RdDispStart
    \/ RdWorker

\* the steps of the goroutine of a caller inside ReadAt, of the goroutine of
\* a transfer, and of asyncRequestHandler
RdCallerStep(c) ==
    \/ RdLoop(c) \/ RdMapGet(c) \/ RdSchedule(c) \/ RdSchedulePut(c)
    \/ RdScheduleSend(c) \/ RdWaitForData(c) \/ RdCopyTo(c)
    \/ RdPrefetch(c) \/ RdReturn(c)

RdWorkerStep(t) ==
    \/ RdWorkerLoop(t) \/ RdWorkerRead(t) \/ RdWorkerComplete(t)
    \/ RdWorkerPut(t) \/ RdWorkerRemove(t) \/ RdWorkerTerminate(t)
    \/ RdWorkerGiveBack(t)

RdDispStep == RdDispReceive \/ RdDispCheck \/ RdDispStart

\* The Go scheduler runs every goroutine that can take a step, and a base
\* read returns: while some goroutine of the reader can take a step, one of
\* them does.  Entering ReadAt is the caller's choice and is not forced.
RdProgress ==
    \/ \E c \in DOMAIN rdCons : RdCallerStep(c)
    \/ \E t \in DOMAIN rdWorkers : RdWorkerStep(t)
    \/ RdDispStep

RdFairness == WF_vars(RdProgress)

SpecRdFair == InitRdFair /\ [][NextRdFair]_vars /\ RdFairness

\* The file is read in order through a reader with a cache store and one or
\* two base readers, and after its Release through a second reader with the
\* same cache store.  The store has room
\* for an entry of every block; its entry size cap is a block, or less.
RdCacheKeys == 0..(GetBlockIDForOffset(RdMaxSize + RdMaxBufLen) + 1)

InitRdCache ==
    /\ RdInitEnv({1}, 1..RdMaxSize, {1, 2}, RdSeqMaxTransfers,
                 RdEnv(TRUE, {RdBlockSize, RdMaxBufLen}, 0..RdMaxSize, RdMaxSize + 2,
                       RdSeqMaxTransfers, TRUE, FALSE, blockRequestsCap, TRUE))
    /\ \E entrySizeCap \in {RdBlockSize - 1, RdBlockSize} :
            DcInitState(RdCacheKeys, {RdPath}, {}, entrySizeCap,
                        Cardinality(RdCacheKeys), 0)
    /\ BwInitState(FALSE, {1}) /\ AwInitState /\ AuxUnused

NextRdCache ==
    \/ RdReadAt \/ RdPrefetching \/ RdCaching
    \/ RdDispatcher \/ RdWorker \/ RdRelease

SpecRdCache == InitRdCache /\ [][NextRdCache]_vars

\* goroutines that create, read and delete entries of one store concurrently
InitDc ==
    /\ DcInitState(DcKeySet, DcGroupSet, {1, 2}, DcEntrySizeCap,
                   DcEntryNumberCap, DcMaxOps)
    /\ BwInitState(FALSE, {1}) /\ AwInitState /\ RdUnused /\ AuxUnused

NextDc == DcCreateEntry \/ DcRead \/ DcDelete

SpecDc == InitDc /\ [][NextDc]_vars

\* producers, a consumer and group operations on one RAMBuffer
InitRb ==
    /\ RbInitState(RbSizeCaps, RbProcSet) /\ CoreUnused /\ InoInitState /\ FbInitState /\ VpUnused
    /\ PfUnused /\ OwUnused

NextRb ==
    \/ RbNewGroup \/ RbCreateBegin \/ RbCreateLoop \/ RbDeleteOne \/ RbPop
    \/ RbDeleteEntries \/ RbDeleteGroup \/ RbDeleteAllEntryGroups

SpecRb == InitRb /\ [][NextRb]_vars

\* the producers inside CreateEntry are scheduled
RbFairness == WF_vars(RbCreateLoop)

SpecRbFair == SpecRb /\ RbFairness

\* concurrent callers of the inode manager (every call is one critical section)
InitIno == InoInitState /\ CoreUnused /\ RbUnused /\ FbInitState /\ VpUnused /\ PfUnused /\ OwUnused

NextIno == InoVPath \/ InoOverlay

SpecIno == InitIno /\ [][NextIno]_vars

\* calls of the block helper's methods
InitFb == FbInitState /\ CoreUnused /\ RbUnused /\ InoInitState /\ VpUnused /\ PfUnused /\ OwUnused

NextFb == FbRange \/ FbFirstAndLast

SpecFb == InitFb /\ [][NextFb]_vars

\* build() over every validated list of mappings and every remote store
\* goroutines that call Determine of one prefetcher concurrently, for one file
InitPf ==
    /\ PfInitState(1..PfMaxBlockSize, 0..PfMaxSize, PfProcSet)
    /\ CoreUnused /\ RbUnused /\ InoInitState /\ FbInitState /\ VpUnused /\ OwUnused

NextPf == PfBegin \/ PfLocked

SpecPf == InitPf /\ [][NextPf]_vars

\* a caller that writes and flushes through an AsyncWriter over a RAMBuffer,
\* and the goroutine of backgroundWriteTask; the file handle's writes may fail
InitOw ==
    /\ OwInitState(0..OwMaxOffset, BOOLEAN)
    /\ CoreUnused /\ RbUnused /\ InoInitState /\ FbInitState /\ VpUnused /\ PfUnused

NextOw == OwWriteAt \/ OwFlush \/ OwWorker

SpecOw == InitOw /\ [][NextOw]_vars

InitVp ==
    /\ VpInitState(VpLens, VpStats) /\ CoreUnused /\ RbUnused /\ InoInitState /\ FbInitState
    /\ PfUnused /\ OwUnused

NextVp == VpBuild

SpecVp == InitVp /\ [][NextVp]_vars

----------------------------------------------------------------------------
(* Claims about AsyncCacheThroughReader                                    *)

RdInFlight(t) == ~rdTransfers[t].completed /\ ~rdTransfers[t].failed

(* C1: at most one transfer is in flight for a block: concurrent ReadAt     *)
(* calls that miss the same block share one transfer and one worker.        *)
C1_SingleFlight ==
    \A t1, t2 \in 1..Len(rdTransfers) :
        (t1 /= t2 /\ rdTransfers[t1].blockID = rdTransfers[t2].blockID)
            => ~(RdInFlight(t1) /\ RdInFlight(t2))

(* C2: a caller that reads the file by successive ReadAt calls with         *)
(* non-empty buffers, each starting where the one before ended, is given    *)
(* the bytes of the file in order: every call returns the bytes of the      *)
(* range it asked for, a call without an error fills its buffer, no call    *)
(* fails, and when EOF is returned the counts add up to the size.           *)
C2_SequentialRead ==
    LET k == rdCons[1]
    IN  /\ k.pc /= "panic"
        /\ Len(rdDelivered) <= rdSize
        /\ rdDelivered = FileRange(0, Len(rdDelivered))
        /\ k.res.offset >= 0 =>
            /\ k.res.n = Len(k.res.data)
            /\ k.res.data = FileRange(k.res.offset, k.res.n)
            /\ k.res.offset + k.res.n = Len(rdDelivered)
            /\ k.res.err \in {"nil", "EOF"}
            /\ k.res.err = "nil" => k.res.n = k.res.bufLen
            /\ k.res.err = "EOF" => Len(rdDelivered) = rdSize

\* the largest file has been read to its end by two calls, the second one
\* across blocks, with a second base reader for prefetching
C2_Witness ==
    /\ rdSize = RdMaxSize
    /\ rdNumReaders = 2
    /\ rdCons[1].pc = "idle"
    /\ rdCons[1].calls = 2
    /\ rdCons[1].res = [n |-> RdMaxSize - 1, err |-> "EOF",
                        data |-> FileRange(1, RdMaxSize - 1), offset |-> 1,
                        bufLen |-> RdMaxSize]
    /\ rdDelivered = FileRange(0, RdMaxSize)
    /\ rdPrefetched /= {}

(* C3: when Release has returned, every transfer that existed when it was   *)
(* called is completed or failed.                                           *)
C3_ReleaseEndsTransfers ==
    rdRel = "done" => \A t \in rdAtRelease : ~RdInFlight(t)

(* C4: when Release has returned, the dispatcher and every goroutine of a   *)
(* transfer have ended.                                                     *)
C4_ReleaseJoinsWorkers ==
    rdRel = "done" =>
        /\ rdDisp.pc = "done"
        /\ \A t \in DOMAIN rdWorkers : rdWorkers[t].pc \in {"none", "done", "panic"}

(* C12: a ReadAt whose window ends at the last byte of the file returns     *)
(* that byte together with EOF in the same call.                            *)
C12_LastByteWithEOF ==
    LET k == rdCons[1]
    IN  (k.res.offset >= 0 /\ k.res.n >= 1 /\ k.res.offset + k.res.n = rdSize)
            => k.res.err = "EOF"

(* C13: with a second base reader and one caller reading in order, one      *)
(* transfer at most is ever started for block 1.                            *)
C13_OneTransferForBlock1 ==
    \A t1, t2 \in 1..Len(rdTransfers) :
        (rdTransfers[t1].blockID = 1 /\ rdTransfers[t2].blockID = 1) => t1 = t2

\* the bytes a call at the start of block 0 waits for in WaitForData
RdErrNeeded(bufLen) == Min(RdBlockSize, bufLen)

\* a worker that has passed the given step of its goroutine
RdWorkerPast(t, pcs) == rdWorkers[t].pc \in pcs

\* transfers of failed base reads: the error is recorded, the transfer has
\* left the map and the base reader is back in the pool or in use again
C14_FailureRecorded ==
    /\ rdLastError = "io" =>
            \E t \in 1..Len(rdTransfers) :
                rdTransfers[t].failed /\ ~rdTransfers[t].completed
    /\ \A t \in 1..Len(rdTransfers) : rdTransfers[t].failed =>
        /\ RdWorkerPast(t, {"remove", "terminate", "giveback", "done"})
                => rdLastError = "io"
        /\ RdWorkerPast(t, {"terminate", "giveback", "done"})
                => rdMap[rdTransfers[t].blockID] # t
        /\ RdWorkerPast(t, {"done"}) =>
                \/ \E i \in 1..Len(rdAvail.q) : rdAvail.q[i] = rdWorkers[t].br
                \/ \E u \in 1..Len(rdTransfers) :
                        /\ u # t /\ rdWorkers[u].br = rdWorkers[t].br
                        /\ ~RdWorkerPast(u, {"none", "done"})

\* the calls that have returned: one whose transfer failed before it held
\* the bytes asked for has the error, every other one has its bytes
C14_Returned ==
    \A c \in DOMAIN rdCons :
        LET k == rdCons[c]
        IN  (k.pc = "idle" /\ k.res.offset >= 0) =>
                /\ k.res.err \in {"nil", "EOF", "transfer"}
                /\ k.res.err = "transfer" =>
                        k.res.n = 0 /\ k.t # 0 /\ rdTransfers[k.t].failed
                /\ k.res.err # "transfer" =>
                        /\ k.res.n = RdErrNeeded(k.res.bufLen)
                        /\ k.res.data = FileRange(0, k.res.n)
                /\ (/\ k.t # 0
                    /\ rdTransfers[k.t].failed
                    /\ Len(rdTransfers[k.t].buffer) < RdErrNeeded(k.res.bufLen))
                        => k.res.err = "transfer"

\* WaitForData on a failed transfer: false unless the bytes are there
C14_WaitOnFailed ==
    \A c \in DOMAIN rdCons :
        LET k == rdCons[c]
        IN  (/\ k.pc = "wait"
             /\ rdCons'[c].pc # "wait"
             /\ rdTransfers[k.t].failed) =>
                IF Len(rdTransfers[k.t].buffer) < RdErrNeeded(k.bufLen)
                THEN rdCons'[c].pc = "prefetch" /\ rdCons'[c].err = "transfer"
                ELSE rdCons'[c].pc = "copy"

RdAllReturned ==
    /\ \A c \in DOMAIN rdCons : rdCons[c].pc = "idle"
    /\ \A t \in 1..Len(rdTransfers) :
            /\ rdTransfers[t].completed \/ rdTransfers[t].failed
            /\ rdWorkers[t].pc # "none"

RdHasRead(t) ==
    /\ rdWorkers[t].pc # "none"
    /\ ~(rdWorkers[t].pc \in {"loop", "read"} /\ rdWorkers[t].total = 0)

(* C11: a second reader with the cache store of the first delivers the      *)
(* bytes the first delivered and reports EOF at the same position, and it   *)
(* issues no read of a base reader for a block whose entry the first reader *)
(* left in the cache store.                                                 *)
C11_SecondPassFromCache ==
    LET k == rdCons[1]
    IN  rdPass.n = 2 =>
            /\ k.pc # "panic"
            /\ rdDelivered = FileRange(0, Len(rdDelivered))
            /\ Len(rdDelivered) <= Len(rdPass.data)
                    => rdDelivered = SubSeq(rdPass.data, 1, Len(rdDelivered))
            /\ k.res.offset >= 0 =>
                    /\ k.res.err \in {"nil", "EOF"}
                    /\ k.res.err = "nil" => k.res.n = k.res.bufLen
                    /\ k.res.err = "EOF" => Len(rdDelivered) = rdSize
                    /\ (k.res.err = "EOF" /\ rdPass.err = "EOF")
                            => rdDelivered = rdPass.data
            /\ \A t \in 1..Len(rdTransfers) :
                    rdTransfers[t].blockID \in rdPass.cached => ~RdHasRead(t)

\* the largest file has been read to its end twice; the first reader left
\* its two blocks in the cache store and the second one made no transfer
C11_Witness ==
    /\ rdPass.n = 2
    /\ rdSize = RdMaxSize
    /\ rdPass.err = "EOF" /\ rdPass.data = FileRange(0, RdMaxSize)
    /\ {0, GetLastBlockID(RdMaxSize)} \subseteq rdPass.cached
    /\ rdCons[1].pc = "idle" /\ rdCons[1].res.err = "EOF"
    /\ rdDelivered = FileRange(0, RdMaxSize)
    /\ rdTransfers = <<>>

(* C16: when the cache store refuses the entry of a completed block, the    *)
(* error becomes the reader's last error, the block is in the LRU of the    *)
(* block store, and the ReadAt calls are given the bytes without an error.  *)
C16_CachePutFailure ==
    LET k == rdCons[1]
    IN  /\ \A t \in 1..Len(rdTransfers) :
            (/\ rdTransfers[t].completed
             /\ dcEnv.entrySizeCap < Len(rdTransfers[t].buffer)
             /\ rdWorkers[t].pc \in {"remove", "terminate", "giveback", "done"})
                => /\ rdLastError = "cache"
                   /\ rdTransfers[t].blockID \notin DcKeysOf(dcIndex)
                   /\ rdRel \notin {"done"} =>
                        \E i \in 1..Len(rdStore) :
                            /\ rdStore[i].blockID = rdTransfers[t].blockID
                            /\ rdStore[i].buffer = rdTransfers[t].buffer
        /\ rdLastError = "cache" =>
            /\ k.pc # "panic"
            /\ rdDelivered = FileRange(0, Len(rdDelivered))
            /\ k.res.offset >= 0 =>
                    /\ k.res.err \in {"nil", "EOF"}
                    /\ k.res.data = FileRange(k.res.offset, k.res.n)
                    /\ k.res.err = "nil" => k.res.n = k.res.bufLen

\* the entry of block 0 was refused, and a ReadAt that waited for the block
\* has returned its bytes; the block is in the LRU
C16_Witness ==
    /\ rdLastError = "cache"
    /\ dcEnv.entrySizeCap < RdBlockSize
    /\ 0 \notin DcKeysOf(dcIndex)
    /\ Len(rdTransfers) >= 1 /\ rdTransfers[1].blockID = 0
    /\ rdTransfers[1].completed /\ rdWorkers[1].pc = "done"
    /\ rdCons[1].pc = "idle"
    /\ rdCons[1].res.offset = 0 /\ rdCons[1].res.n = RdBlockSize
    /\ rdCons[1].res.err = "nil"
    /\ rdStore # <<>> /\ Head(rdStore).blockID = 0
    /\ Head(rdStore).buffer = FileRange(0, RdBlockSize)

\* the workers that hold base reader r: the goroutines of startAsyncTransfer
\* that have not yet ended
RdRunning == {t \in DOMAIN rdWorkers : rdWorkers[t].pc \notin {"none", "done", "panic"}}

RdHolders(r) == {t \in RdRunning : rdWorkers[t].br = r}

\* the places of availableBaseReaders that hold base reader r
RdWaiting(r) == {i \in 1..Len(rdAvail.q) : rdAvail.q[i] = r}

\* C28: every base reader is in availableBaseReaders or held by one running
\* worker, never both and never by two workers, so that at most
\* len(baseReaders) workers run at once; and a worker that ends sends its
\* reader to availableBaseReaders once, unless the reader is terminating.
C28_SingleOwner ==
    /\ [](/\ \A r \in 1..rdNumReaders :
                /\ Cardinality(RdWaiting(r)) + Cardinality(RdHolders(r)) <= 1
                /\ ~rdTerminate => Cardinality(RdWaiting(r)) + Cardinality(RdHolders(r)) = 1
          /\ \A t \in RdRunning : rdWorkers[t].br \in 1..rdNumReaders
          /\ Cardinality(RdRunning) <= rdNumReaders)
    /\ [][\A t \in DOMAIN rdWorkers :
            t \in RdRunning /\ rdWorkers'[t].pc \in {"done", "panic"} =>
                \/ /\ rdAvail'.q = Append(rdAvail.q, rdWorkers[t].br)
                   /\ Cardinality(RdWaiting(rdWorkers[t].br)) = 0
                \/ rdTerminate /\ rdAvail'.q = rdAvail.q]_vars

\* two workers run at once, each with its own base reader
C28_Witness ==
    /\ Cardinality(RdRunning) = 2
    /\ \E t \in DOMAIN rdWorkers : rdWorkers[t].pc = "done" /\ ~rdTerminate

\* a worker has ended while the reader was terminating, and its base reader
\* is in no channel and with no worker
RdReaderDropped ==
    /\ rdTerminate
    /\ \E r \in 1..rdNumReaders :
            Cardinality(RdWaiting(r)) + Cardinality(RdHolders(r)) = 0

\* C29: no goroutine sends on a channel that Release has closed: no worker
\* sends its base reader on availableBaseReaders after close, and
\* scheduleBlockTransfer never sends on blockRequests after close.
C29_NoSendOnClosed ==
    /\ \A t \in DOMAIN rdWorkers : rdWorkers[t].pc # "panic"
    /\ \A c \in DOMAIN rdCons : rdCons[c].pc # "panic"

\* the two sends one by one: each of them happens on a closed channel
RdWorkerNeverSendsOnClosed == \A t \in DOMAIN rdWorkers : rdWorkers[t].pc # "panic"

RdScheduleNeverSendsOnClosed == \A c \in DOMAIN rdCons : rdCons[c].pc # "panic"

\* C30: a transfer that is completed or failed stays as it is: its state does
\* not change and no byte is appended to its buffer; and the buffer of a
\* transfer never gets shorter.
C30_TerminalStates ==
    [][\A t \in 1..Len(rdTransfers) :
            LET old == rdTransfers[t]
                new == rdTransfers'[t]
            IN  /\ Len(rdTransfers') >= Len(rdTransfers)
                /\ Len(new.buffer) >= Len(old.buffer)
                /\ old.completed \/ old.failed =>
                        /\ new.completed = old.completed
                        /\ new.failed = old.failed
                        /\ new.buffer = old.buffer]_vars

\* what the code does keep: the buffer only grows, by appending, and a
\* completed transfer stays completed and never becomes failed
RdCompletedStays ==
    [][\A t \in 1..Len(rdTransfers) :
            LET old == rdTransfers[t]
                new == rdTransfers'[t]
            IN  /\ Len(rdTransfers') >= Len(rdTransfers)
                /\ Len(new.buffer) >= Len(old.buffer)
                /\ SubSeq(new.buffer, 1, Len(old.buffer)) = old.buffer
                /\ old.completed => new.completed /\ ~new.failed /\ new.buffer = old.buffer]_vars

\* C32: a transfer that StopAllTransfers has marked failed is abandoned by
\* its worker: the worker does not mark it completed and does not go on to
\* blockStore.Put with it, wherever in its loop the worker is when the
\* failure arrives.  (Base reads do not fail here, so a failed transfer is
\* one that StopAllTransfers failed.)
C32_FailedIsAbandoned ==
    [][\A t \in 1..Len(rdTransfers) :
            rdTransfers[t].failed =>
                /\ ~rdTransfers'[t].completed
                /\ rdWorkers'[t].pc \notin {"store", "cache"}]_vars

\* what the code does keep: a worker that finds the transfer failed at the
\* head of its loop, with bytes of the block still to read, ends without
\* MarkCompleted and without Put
RdFailedAtLoopHeadIsAbandoned ==
    [][\A t \in 1..Len(rdTransfers) :
            /\ rdTransfers[t].failed
            /\ rdWorkers[t].pc \in {"loop", "remove", "terminate", "giveback"}
            /\ rdWorkers[t].total < RdBlockSize
            => /\ ~rdTransfers'[t].completed
               /\ rdWorkers'[t].pc \in {"loop", "remove", "terminate",
                                        "giveback", "done", "panic"}]_vars

\* the block after the last block of a file that ends at the end of a block
RdEofBlockID == GetBlockIDForOffset(rdSize)

\* the cache store holds a block of RdBlockSize bytes that ends the file, and
\* an empty entry for the block after it
RdEofEntryCached ==
    /\ rdSize >= RdBlockSize
    /\ GetBlockStartOffset(RdEofBlockID) = rdSize
    /\ {RdEofBlockID - 1, RdEofBlockID} \subseteq DcKeysOf(dcIndex)
    /\ dcFiles[RdEofBlockID - 1] = FileRange(rdSize - RdBlockSize, RdBlockSize)
    /\ dcFiles[RdEofBlockID] = <<>>

RdStoredBlock(k) == Head(StoreGet(rdStore, GetBlockIDForOffset(k.cur)))

\* C38: ReadAt never slices a block buffer beyond its length: the in-block
\* offset is at most the length of the buffer of the stored block, or of the
\* transfer, that ReadAt copies from, for every offset >= 0, also inside a
\* block and beyond the end of the file; no call of ReadAt ends in a panic,
\* and a call at or beyond the end of the file returns 0 bytes and EOF.
C38_NeverPastBuffer ==
    \A c \in DOMAIN rdCons :
        LET k == rdCons[c]
        IN  /\ k.pc = "copy" => RdInBlockOffset(k) <= Len(rdTransfers[k.t].buffer)
            /\ (/\ k.pc = "loop" /\ k.total < k.bufLen
                /\ StoreContains(rdStore, GetBlockIDForOffset(k.cur)))
               => RdInBlockOffset(k) <= Len(RdStoredBlock(k).buffer)
            /\ k.pc # "panic"
            /\ k.pc = "idle" /\ k.res.bufLen > 0 /\ k.res.offset >= rdSize
               => k.res.n = 0 /\ k.res.err = "EOF"

\* what the code does keep: a call at an offset that is not beyond the end
\* of the file never slices beyond a buffer, and a call at the end of the
\* file returns 0 bytes and EOF
RdUpToEndNeverPastBuffer ==
    \A c \in DOMAIN rdCons :
        LET k == rdCons[c]
        IN  /\ k.pc \notin {"idle"} /\ k.offset <= rdSize => k.pc # "panic"
            /\ k.pc = "idle" /\ k.res.bufLen > 0 /\ k.res.offset = rdSize
               => k.res.n = 0 /\ k.res.err = "EOF"

\* the two slices one by one: the one of CopyTo, and the one of ReadAt on a
\* block of the block store
RdCopyToNeverPastBuffer ==
    \A c \in DOMAIN rdCons :
        rdCons[c].pc = "copy" =>
            RdInBlockOffset(rdCons[c]) <= Len(rdTransfers[rdCons[c].t].buffer)

RdServeNeverPastBuffer ==
    \A c \in DOMAIN rdCons :
        (/\ rdCons[c].pc = "loop" /\ rdCons[c].total < rdCons[c].bufLen
         /\ StoreContains(rdStore, GetBlockIDForOffset(rdCons[c].cur)))
        => RdInBlockOffset(rdCons[c]) <= Len(RdStoredBlock(rdCons[c]).buffer)

\* the size a caller in WaitForData waits for (line 267)
RdWaitSize(k) == RdInBlockOffset(k) + RdReadLenFromBase(k)

\* C31: a caller blocked in WaitForData(size) is woken as soon as Write has
\* brought the buffer of the transfer to size bytes: no caller is asleep in
\* condition.Wait() on a transfer whose buffer has the bytes it waits for.
C31_WokenByWrite ==
    \A c \in DOMAIN rdCons :
        rdCons[c].pc = "sleep" =>
            Len(rdTransfers[rdCons[c].t].buffer) < RdWaitSize(rdCons[c])

\* what the code does keep: MarkCompleted and MarkFailed wake the callers,
\* so a caller is asleep only on a transfer that is neither completed nor
\* failed; and a caller that WaitForData lets through has the bytes or a
\* completed transfer
RdAsleepOnlyWhileRunning ==
    \A c \in DOMAIN rdCons :
        rdCons[c].pc = "sleep" =>
            /\ ~rdTransfers[rdCons[c].t].completed
            /\ ~rdTransfers[rdCons[c].t].failed

RdWaitReturnsTrueWithData ==
    \A c \in DOMAIN rdCons :
        rdCons[c].pc = "copy" =>
            \/ Len(rdTransfers[rdCons[c].t].buffer) >= RdWaitSize(rdCons[c])
            \/ rdTransfers[rdCons[c].t].completed

----------------------------------------------------------------------------
(* Claims about SyncBufferedWriter                                         *)

BwSpan == 0..(BwMaxOffset + BwMaxLen)

\* the buffered writer has been flushed and no baseWriter call has failed
BwFlushedOk == bwLast.op = "flush" /\ ~bwErrSeen

(* C9: after any sequence of WriteAt calls followed by Flush, with no error  *)
(* of the inner writer, the inner writer has received exactly the bytes of  *)
(* the calls, each once, at its offset and in the order of the calls, so    *)
(* the file it produces is the file the calls produce when applied directly.*)
C9_BufferedEqualsDirect ==
    BwFlushedOk =>
        /\ Flat(bwInner) = Flat(bwCalls)
        /\ FileOf(bwInner, BwSpan) = FileOf(bwCalls, BwSpan)
        /\ bwBuffer = <<>>

\* C9's case: calls that are not contiguous, flushed, several inner calls
C9_Witness ==
    /\ BwFlushedOk
    /\ ~bwContig
    /\ Len(bwCalls) = 3
    /\ Len(bwInner) = 2
    /\ bwCalls[2].offset < bwCalls[1].offset + Len(bwCalls[1].data)
    /\ bwCalls[2].offset + Len(bwCalls[2].data) > bwCalls[1].offset

(* C10: when the WriteAt calls form one contiguous run of total bytes and   *)
(* are followed by Flush, the inner writer receives at most                 *)
(* ceil(total / bufferSize) + 1 calls, and each inner call starts where the *)
(* earlier inner calls of the run ended.                                    *)
C10_CoalescedRun ==
    (BwFlushedOk /\ bwContig /\ bwCalls # <<>>) =>
        /\ Len(bwInner) <= CeilDiv(TotalLen(bwCalls), bwBufferSize) + 1
        /\ \A i \in 1..Len(bwInner) :
               bwInner[i].offset =
                   bwCalls[1].offset + TotalLen(SubSeq(bwInner, 1, i - 1))

\* C10's case: a run of three calls, starting past offset 0, of which the
\* first two were coalesced at the high-water mark and the third left a tail
C10_Witness ==
    /\ BwFlushedOk /\ bwContig
    /\ Len(bwCalls) = 3
    /\ bwCalls[1].offset > 0
    /\ bwBufferSize = 2
    /\ Len(bwInner) = 2
    /\ Len(bwInner[1].data) = 2

\* C21: when baseWriter.WriteAt returns an error while Flush spills the buffer,
\* the buffered bytes are discarded: the buffer is empty after the Flush.
\* (The last call of bwInner is the spill of this Flush when it failed: a later
\* successful spill would have appended a call with ok.)
C21_FailedFlushDiscards ==
    (/\ bwLast.op = "flush"
     /\ bwInner # <<>>
     /\ ~bwInner[Len(bwInner)].ok) => bwBuffer = <<>>

\* this step is a WriteAt that returned an error
BwWriteFailed ==
    /\ Len(bwCalls') = Len(bwCalls) + 1
    /\ bwCalls'[Len(bwCalls')].err

\* C39: a WriteAt that returns an error leaves the buffer as it was before
\* the call: the bytes of the failed call are not in the buffer, and no later
\* WriteAt or Flush sends them to the inner writer.
C39_FailedWriteKeepsBuffer ==
    [][BwWriteFailed => bwBuffer' = bwBuffer /\ bwStart' = bwStart]_vars

\* what the code keeps: when the spill that failed is the one before the data
\* is put into the buffer (the data does not continue the buffer), the buffer
\* is as it was
BwFirstSpillFailureKeeps ==
    [][BwWriteFailed /\ bwInner'[Len(bwInner')].data = bwBuffer =>
            bwBuffer' = bwBuffer /\ bwStart' = bwStart]_vars

\* no byte of a WriteAt that returned an error reaches the inner writer in a
\* call that succeeds
BwFailedBytesNeverSent ==
    \A i \in 1..Len(bwCalls), j \in 1..Len(bwInner) :
        bwCalls[i].err /\ bwInner[j].ok =>
            \A k \in 1..Len(bwInner[j].data) :
                \A l \in 1..Len(bwCalls[i].data) : bwInner[j].data[k] # bwCalls[i].data[l]

----------------------------------------------------------------------------
(* Claims about AsyncWriter                                                *)

\* the calls of baseWriter.WriteAt as (offset, data) pairs
AwInnerCalls == [i \in 1..Len(awInner) |->
                    [offset |-> awInner[i].offset, data |-> awInner[i].data]]

\* the caller is back from the call named op
AwReturned(op) == awCaller.pc = "idle" /\ awLast.op = op

(* C5: when Flush has returned no error, every block pushed by an earlier   *)
(* WriteAt has been written to the inner writer exactly once, with the      *)
(* offset and the bytes the caller gave at submission.                      *)
C5_FlushedBlocksWritten ==
    (AwReturned("flush") /\ awLast.err = 0) =>
        /\ AwInnerCalls = awPushed
        /\ \A i \in 1..Len(awInner) : awInner[i].st = "ok"

\* C5's case: two blocks flushed, the first no longer in the caller's buffer
C5_Witness ==
    /\ AwReturned("flush") /\ awLast.err = 0
    /\ Len(awPushed) >= 2
    /\ awPushed[1].data # awCallerBuf
    /\ awPushed[1].offset = awPushed[2].offset

(* C6: the inner writer is called in submission order: the calls made so    *)
(* far are those of the first blocks pushed, in the order they were pushed, *)
(* and a call is started only when every earlier call has returned.         *)
C6_SubmissionOrder ==
    /\ Len(awInner) <= Len(awPushed)
    /\ AwInnerCalls = SubSeq(awPushed, 1, Len(awInner))
    /\ \A i \in 1..(Len(awInner) - 1) : awInner[i].st # "started"

\* C6's case: the second inner call is running while the channel is full
C6_Witness ==
    /\ Len(awInner) = 2
    /\ awInner[2].st = "started"
    /\ Len(awQueue) = AwQueueCap
    /\ awPushed[1].offset # awPushed[2].offset

\* the inner calls that returned an error
AwFailedCalls == {i \in 1..Len(awInner) : awInner[i].st = "failed"}

\* lastError, once set, is the error of the one inner call that failed, and
\* no inner call follows the failed one
AwFirstErrorKept ==
    /\ Cardinality(AwFailedCalls) <= 1
    /\ \A i \in AwFailedCalls : i = Len(awInner)
    /\ awLastError # 0 => awLastError \in AwFailedCalls

(* C7 as stated: once the worker has recorded an error, every WriteAt       *)
(* submitted afterwards returns that error, and no block is written after   *)
(* the one that failed.                                                     *)
C7_Original ==
    /\ AwFirstErrorKept
    /\ (AwReturned("write") /\ awStartErr # 0) => awLast.err = awStartErr

(* C7 as amended: once the worker has recorded an error, every WriteAt of   *)
(* non-empty data submitted afterwards returns that error and accepts       *)
(* nothing, and no block is written after the one that failed; a WriteAt of *)
(* empty data returns 0 and no error.                                       *)
C7_FailFast ==
    /\ AwFirstErrorKept
    /\ (AwReturned("write") /\ awStartErr # 0) =>
           /\ awLast.n = 0
           /\ awLast.err = (IF awLast.len > 0 THEN awStartErr ELSE 0)

\* C7's case: a WriteAt of non-empty data was refused with the recorded error
\* while a pushed block was dropped
C7_Witness ==
    /\ AwReturned("write") /\ awStartErr # 0
    /\ awLast.len > 0 /\ awLast.err = 1
    /\ Len(awPushed) >= 2 /\ Len(awInner) = 1
    /\ awWg = 0

\* every block pushed, or about to be, is counted once in the wait group
AwCounted ==
    LET sending == IF awCaller.pc = "send" THEN 1 ELSE 0
        held == IF awWorker.pc = "recv" THEN 0 ELSE 1
    IN  /\ awWg = Len(awQueue) + held + sending
        /\ awWg + awDone = Len(awPushed) + sending

(* C8: every block pushed onto the channel is matched by exactly one Done() *)
(* of the wait group, also when it is dropped after an error, so a Flush    *)
(* that waits for the wait group returns.                                   *)
C8_FlushReturns ==
    /\ [](AwCounted)
    /\ (awCaller.pc = "flushwait") ~> AwReturned("flush")

\* C8's case: Flush has returned although a pushed block was dropped
C8_Witness ==
    /\ AwReturned("flush")
    /\ awLastError # 0
    /\ Len(awPushed) > Len(awInner)
    /\ awDone = Len(awPushed)

(* C20: once a write of the worker has failed, a Flush that returns gives    *)
(* an error, and it is the error of that first failed write.                *)
C20_FlushFirstError ==
    (AwReturned("flush") /\ awLastError # 0) => awLast.err = awLastError

----------------------------------------------------------------------------
(* Claims about RAMBuffer                                                  *)

\* the sizes of the entries a group holds, added up
RbEntrySizes(group) ==
    RbSum([k \in RbKeysOf(group) |-> group.entryMap[k]], RbKeysOf(group))

\* the sizes of the entries held in the groups of the buffer, added up
RbHeld ==
    RbSum([n \in RbNamesOf(rbGroupMap) |-> RbEntrySizes(rbGroups[rbGroupMap[n]])],
          RbNamesOf(rbGroupMap))

\* C22: the sizes of all entries held in all groups of a RAMBuffer add up to
\* at most sizeCap; a CreateEntry with data larger than sizeCap fails at once
\* (it never enters the waiting loop, and only such a CreateEntry fails); a
\* CreateEntry that does not fit waits and inserts nothing.
C22_WithinSizeCap ==
    /\ RbHeld <= rbSizeCap
    /\ \A p \in DOMAIN rbProcs : rbProcs[p].pc # "idle" => rbProcs[p].len <= rbSizeCap
    /\ rbLast.op = "create" => (rbLast.err <=> rbLast.len > rbSizeCap)
    /\ rbLast.op = "wait" =>
           /\ rbProcs[rbLast.proc].pc = "wait"
           /\ RbTotalSize(rbGroups, rbGroupMap) + rbLast.len > rbSizeCap

\* two groups hold an entry each, the buffer is full, and a producer waits
C22_Witness ==
    /\ Cardinality(RbNamesOf(rbGroupMap)) = 2
    /\ \A n \in RbNames : RbKeysOf(rbGroups[rbGroupMap[n]]) # {}
    /\ RbHeld = rbSizeCap
    /\ \E p \in DOMAIN rbProcs : rbProcs[p].pc = "wait" /\ rbProcs[p].len > 0

\* the operations that free bytes and broadcast
RbFreeingOps == {"pop", "delete", "deleteall", "deletegroup", "deletegroups"}

\* a producer is inside CreateEntry, and PopEntry, DeleteEntry or a deletion of
\* groups has just left few enough bytes in the buffer's groups for its data
\* (no group has been replaced by CreateEntryGroup, which drops a group's
\* bytes without a broadcast)
RbRoomFor(p) ==
    /\ rbProcs[p].pc # "idle"
    /\ rbLast.op \in RbFreeingOps
    /\ rbLast.len > 0
    /\ ~rbReplaced
    /\ RbHeld + rbProcs[p].len <= rbSizeCap

\* the bytes held leave no room for the producer's data any more
RbRoomTaken(p) == RbHeld + rbProcs[p].len > rbSizeCap

\* C23: a producer inside CreateEntry whose data fits into the bytes that
\* PopEntry, DeleteEntry or a group deletion have left free eventually
\* inserts its entry (or the room is taken by another producer).
C23_BlockedProducerInserts ==
    \A p \in RbProcSet : RbRoomFor(p) ~> (rbProcs[p].pc = "idle" \/ RbRoomTaken(p))

\* the same with the room measured by the groups' size counters
RbCountedRoomFor(p) ==
    /\ rbProcs[p].pc # "idle"
    /\ rbLast.op \in RbFreeingOps
    /\ rbLast.len > 0
    /\ ~rbReplaced
    /\ RbTotalSize(rbGroups, rbGroupMap) + rbProcs[p].len <= rbSizeCap

RbCountedRoomUsed ==
    \A p \in RbProcSet :
        RbCountedRoomFor(p) ~>
            \/ rbProcs[p].pc = "idle"
            \/ RbTotalSize(rbGroups, rbGroupMap) + rbProcs[p].len > rbSizeCap

\* C40: the size counter of every group equals the sum of the sizes of the
\* entries in the group's entryMap, so that a buffer whose entries have all
\* been popped or deleted has its whole sizeCap available.
C40_SizeCounterExact ==
    \A g \in 1..Len(rbGroups) : rbGroups[g].size = RbEntrySizes(rbGroups[g])

\* what the code keeps: the counter is never below the bytes of the entries
RbSizeCounterCovers ==
    \A g \in 1..Len(rbGroups) : rbGroups[g].size >= RbEntrySizes(rbGroups[g])

\* the counter is exact as long as no CreateEntry has stored an entry under
\* a key that had one
RbExactUntilOverwrite ==
    [][C40_SizeCounterExact /\ ~C40_SizeCounterExact' =>
            /\ rbLast'.op = "create"
            /\ rbGroups[rbLast'.group].entryMap[rbLast'.key] # RbNoEntry]_vars

----------------------------------------------------------------------------
(* Claims about InodeManager                                               *)

\* the calls of a kind, in the order made
InoCallsOf(kind) == SelectSeq(inoCalls, LAMBDA c : c.kind = kind)

\* the first call of cs for the path of call i
InoFirst(cs, i) ==
    CHOOSE j \in 1..i : cs[j].path = cs[i].path /\ \A k \in 1..(j - 1) : cs[k].path # cs[i].path

\* every call of a kind returns an inode, the same for the same path and
\* different ones for different paths, handed out from start in increasing
\* order: a path gets start + the number of paths asked for before it
InoMemoised(kind, start) ==
    LET cs == InoCallsOf(kind)
    IN  \A i \in 1..Len(cs) :
            /\ ~cs[i].panic
            /\ \A j \in 1..Len(cs) : (cs[i].path = cs[j].path) <=> (cs[i].id = cs[j].id)
            /\ cs[i].id = InoAdd(start, Cardinality({cs[k].path : k \in 1..(InoFirst(cs, i) - 1)}))

\* the virtual-directory half of C25
InoVPathMemoised == InoMemoised("vpath", vpathEntryIDStart)

\* C25: for virtual-directory paths and for overlay remote paths alike, the
\* inode manager returns the same inode on every call with the same path and
\* different inodes for different paths, in increasing order from the start
\* of the range.
C25_MemoisedInodes ==
    /\ InoMemoised("vpath", vpathEntryIDStart)
    /\ InoMemoised("overlay", overlayEntryIDStart)

----------------------------------------------------------------------------
(* Claims about FileBlockHelper                                            *)

\* the bytes of block blockID, and the bytes of the request [offset, offset+length)
FbBlockBytes(blockSize, blockID) ==
    {b \in 0..((FbMaxBlockID + 1) * FbMaxBlockSize + FbMaxOffset + FbMaxLength) :
        blockID * blockSize <= b /\ b < (blockID + 1) * blockSize}

FbRequestBytes(offset, length) == offset..(offset + length - 1)

FbMin(S) == CHOOSE x \in S : \A y \in S : x <= y

\* C26: GetBlockRange(offset, length, blockID) returns (0, 0) exactly when
\* block blockID and [offset, offset+length) share no byte; otherwise it
\* returns the first byte and the number of bytes of what they share, and
\* that range lies within the block.
C26_BlockRangeIsIntersection ==
    fbCall.op = "range" =>
        LET shared == FbBlockBytes(fbCall.blockSize, fbCall.blockID)
                          \cap FbRequestBytes(fbCall.offset, fbCall.length)
            blockStart == fbCall.blockID * fbCall.blockSize
        IN  /\ (fbCall.out = <<0, 0>>) <=> (shared = {})
            /\ shared # {} =>
                   /\ fbCall.out = <<FbMin(shared), Cardinality(shared)>>
                   /\ blockStart <= fbCall.out[1]
                   /\ fbCall.out[1] + fbCall.out[2] <= blockStart + fbCall.blockSize

\* a request that ends exactly where the block starts: nothing is shared
C26_Witness ==
    /\ fbCall.op = "range"
    /\ fbCall.offset + fbCall.length = fbCall.blockID * fbCall.blockSize
    /\ fbCall.out = <<0, 0>>

\* a request that covers a part of the block only
FbPartialRange ==
    /\ fbCall.op = "range"
    /\ fbCall.out[2] > 0
    /\ fbCall.out[2] < fbCall.blockSize
    /\ fbCall.out[2] < fbCall.length

\* the range of block id within the request of the last call
FbRangeOf(id) == GetBlockRange(fbCall.blockSize, fbCall.offset, fbCall.length, id)

\* the ids that a request within the bounds can touch, and one more
FbAllBlockIDs == 0..(FbMaxOffset + FbMaxLength + 1)

RECURSIVE FbSumLengths(_, _)
FbSumLengths(first, last) ==
    IF first > last THEN 0 ELSE FbRangeOf(first)[2] + FbSumLengths(first + 1, last)

\* C36: GetFirstAndLastBlockID(offset, length) returns floor(offset / B) and
\* floor((offset + length - 1) / B); the ids from first to last are exactly
\* the blocks whose GetBlockRange is not empty, and the ranges of these
\* blocks start at offset, follow one another without a gap and add up to
\* length. GetBlockIDs lists these ids in order.
C36_FirstAndLastBlock ==
    fbCall.op = "firstlast" =>
        LET first == fbCall.out[1]
            last == fbCall.out[2]
            ids == GetBlockIDs(fbCall.blockSize, fbCall.offset, fbCall.length)
        IN  /\ first = fbCall.offset \div fbCall.blockSize
            /\ last = (fbCall.offset + fbCall.length - 1) \div fbCall.blockSize
            /\ \A id \in FbAllBlockIDs : id \in first..last <=> FbRangeOf(id) # <<0, 0>>
            /\ FbRangeOf(first)[1] = fbCall.offset
            /\ \A id \in first..(last - 1) :
                   FbRangeOf(id)[1] + FbRangeOf(id)[2] = FbRangeOf(id + 1)[1]
            /\ FbSumLengths(first, last) = fbCall.length
            /\ Len(ids) = last - first + 1
            /\ \A i \in 1..Len(ids) : ids[i] = first + i - 1

\* a request that ends exactly at the end of a block and covers three blocks
C36_Witness ==
    /\ fbCall.op = "firstlast"
    /\ (fbCall.offset + fbCall.length) % fbCall.blockSize = 0
    /\ fbCall.offset % fbCall.blockSize # 0
    /\ fbCall.out[2] = fbCall.out[1] + 2

----------------------------------------------------------------------------
(* Claims about VPathManager                                               *)

\* the entry that manager.entries holds for a path
VpEntryAt(path) == vpObjs[vpEntries[path]]

\* a is a proper ancestor of path
VpAncestor(a, path) == Len(a) < Len(path) /\ SubSeq(path, 1, Len(a)) = a

\* C24: after build has succeeded, no virtual directory lies beneath a remote
\* entry: no path with a virtual entry has an ancestor with a remote entry.
C24_NoVirtualBeneathRemote ==
    vpResult = "ok" =>
        \A path \in VpPaths, a \in VpPaths :
            /\ vpEntries[path] # 0
            /\ VpEntryAt(path).type = "virtual"
            /\ VpAncestor(a, path)
            /\ vpEntries[a] # 0
            => VpEntryAt(a).type = "virtual"

\* the same for the mappings listed ancestors first: there the first loop of
\* buildOne refuses the later mapping
VpAncestorsFirst ==
    \A i, j \in 1..Len(vpMappings) :
        VpAncestor(vpMappings[i].mappingPath, vpMappings[j].mappingPath) => i < j

VpNoVirtualBeneathRemoteInOrder ==
    VpAncestorsFirst => C24_NoVirtualBeneathRemote

\* the mapping that the last buildOne was given, and whether its first loop
\* went through (no ancestor was an entry of another type)
VpLastMapping == vpMappings[vpLast.idx]

VpLastStatted == vpLast.idx # 0 /\ vpLast.stat # "none"

\* the last buildOne put the entry of its mapping at the mapping path
VpLeafRecorded ==
    /\ vpLast.leaf
    /\ vpEntries[VpLastMapping.mappingPath] = Len(vpObjs)
    /\ vpObjs[Len(vpObjs)].type = "irods"
    /\ vpObjs[Len(vpObjs)].path = VpLastMapping.mappingPath
    /\ vpObjs[Len(vpObjs)].irodsPath = VpLastMapping.irodsPath

\* every ancestor of the mapping path of the last buildOne has a virtual directory
VpAncestorsKept ==
    \A i \in 1..Len(GetParentDirs(VpLastMapping.mappingPath)) :
        LET d == GetParentDirs(VpLastMapping.mappingPath)[i]
        IN  vpEntries[d] # 0 /\ VpEntryAt(d).type = "virtual"

\* C27: buildOne records the leaf entry of a mapping when the remote path
\* exists or MakeDir created it (which happens for a missing path of a
\* directory mapping with create_dir only); when the path is missing, was not
\* created and ignore_not_exist_error is set, the mapping is skipped without
\* an error and the ancestor directories stay; when it is missing and neither
\* create_dir on a directory mapping nor ignore_not_exist_error is set, the
\* build fails with the not-found error.
C27_LeafSkipOrNotFound ==
    VpLastStatted =>
        LET mapping == VpLastMapping
            created == vpLast.made = "ok"
            dirCreate == mapping.resourceType = "dir" /\ mapping.createDir
        IN  /\ vpLast.made # "none" => vpLast.stat = "missing" /\ dirCreate
            /\ vpLast.stat \in {"file", "dir"} \/ created =>
                   /\ vpLast.ret = "nil"
                   /\ vpResult \in {"building", "ok"}
                   /\ VpLeafRecorded
            /\ vpLast.stat = "missing" /\ mapping.ignoreNotExistError /\ ~created =>
                   /\ vpLast.ret = "nil"
                   /\ vpResult \in {"building", "ok"}
                   /\ ~vpLast.leaf
                   /\ VpAncestorsKept
            /\ vpLast.stat = "missing" /\ ~mapping.ignoreNotExistError /\ ~dirCreate =>
                   /\ vpLast.ret = "notfound"
                   /\ vpResult = "notfound"
                   /\ ~vpLast.leaf

\* a mapping two levels deep whose remote path is missing was skipped, and
\* its two ancestor directories are there
C27_Witness ==
    /\ VpLastStatted
    /\ vpLast.stat = "missing"
    /\ VpLastMapping.ignoreNotExistError
    /\ vpLast.ret = "nil"
    /\ ~vpLast.leaf
    /\ Len(VpLastMapping.mappingPath) = 2
    /\ VpAncestorsKept

\* MakeDir created the directory of a mapping and its leaf entry was recorded
VpCreatedLeaf == VpLastStatted /\ vpLast.made = "ok" /\ VpLeafRecorded

\* the build failed with the not-found error
VpNotFound == VpLastStatted /\ vpResult = "notfound"

\* MakeDir failed: the mapping is skipped with ignore_not_exist_error, and the
\* build fails with the error of MakeDir without it
VpMakeDirFailed ==
    VpLastStatted /\ vpLast.made = "fail" =>
        IF VpLastMapping.ignoreNotExistError
        THEN vpLast.ret = "nil" /\ ~vpLast.leaf
        ELSE vpLast.ret = "makedir" /\ vpResult = "makedir"

\* Stat failed with another error than not-found: an entry without a remote
\* entry is recorded
VpStatErrored ==
    VpLastStatted /\ vpLast.stat = "error" =>
        VpLeafRecorded /\ vpObjs[Len(vpObjs)].irodsEntry = "nil" /\ vpLast.ret = "nil"

----------------------------------------------------------------------------
(* Claims about DiskCacheStore                                             *)

(* C17: a CreateEntry of a new key that finds the store at its entry-count  *)
(* cap evicts exactly one entry, the one whose last CreateEntry or GetEntry *)
(* is the oldest (HasEntry is no access); a CreateEntry of a key that is    *)
(* present replaces its entry and evicts nothing; below the cap nothing is  *)
(* evicted.                                                                 *)
C17_EvictsLeastRecent ==
    dcLast.op = "create" =>
        /\ DcSelect(dcIndex, dcLast.key) = <<dcLast.found>>
        /\ dcLast.evicted = IF ~dcLast.present /\ dcLast.full
                            THEN {dcLast.oldest} ELSE {}

\* C17's case: keys 1 and 2 fill the store, key 1 is got, and the creation
\* of key 3 evicts key 2, not key 1 which was created first
C17_Witness ==
    /\ dcLast.op = "create" /\ dcLast.key = 3
    /\ ~dcLast.present /\ dcLast.full
    /\ dcLast.evicted = {2}
    /\ DcKeysOf(dcIndex) = {1, 3}
    /\ dcAccess[1] = 3 /\ dcAccess[2] = 2

(* C18: every entry of the index has its payload file, and the file holds   *)
(* the bytes given to the CreateEntry call that put the entry there.        *)
C18_IndexedEntriesHaveFiles ==
    \A i \in 1..Len(dcIndex) : dcFiles[dcIndex[i].key] = dcIndex[i].data

(* C19: DeleteAllEntriesForGroup(g) removes the entries of group g, with    *)
(* their payload files and the bucket of g, and no entry of another group.  *)
C19_DeleteGroupOnly ==
    dcLast.op = "purge" =>
        /\ dcIndex = SelectSeq(dcLast.before, LAMBDA e : e.group # dcLast.group)
        /\ \A i \in 1..Len(dcLast.before) :
                dcLast.before[i].group = dcLast.group
                    => dcFiles[dcLast.before[i].key] = NoFile
        /\ dcGroups[dcLast.group] = {}


\* the cache holds an entry of key whose group is group
DcHolds(key, group) ==
    \E i \in 1..Len(dcIndex) : dcIndex[i].key = key /\ dcIndex[i].group = group

\* C35: store.groups is the reverse of the cache's membership: a key is in
\* the bucket of group g exactly when the cache holds an entry of that key
\* whose group is g. (A bucket without keys is a bucket that is not there:
\* onEvicted removes a bucket with its last key.)
C35_GroupIndexIsReverse ==
    \A g \in DOMAIN dcGroups, k \in DOMAIN dcFiles :
        k \in dcGroups[g] <=> DcHolds(k, g)

\* what the code keeps: every entry of the cache is in the bucket of its group
DcEntriesAreListed ==
    \A g \in DOMAIN dcGroups, k \in DOMAIN dcFiles :
        DcHolds(k, g) => k \in dcGroups[g]

\* a bucket lists a key without an entry of that group only after a
\* CreateEntry of a key that the cache held under another group
DcStaleOnlyByRecreate ==
    [][C35_GroupIndexIsReverse /\ ~C35_GroupIndexIsReverse' =>
            /\ dcLast'.op = "create"
            /\ dcLast'.present
            /\ ~DcHolds(dcLast'.key, dcLast'.group)]_vars

----------------------------------------------------------------------------
(* Claims about Prefetcher                                                 *)

PfCandidate(c) == PfTargetBlockID(pfBlockSize, c.offset, pfSize)

\* the in-block offset of call c is below prefetchTriggerRatio * blockSize,
\* with the ratio 0.3 as the fraction 3/10
PfBelowRatio(c) == PfInBlockOffset(pfBlockSize, c.offset) * 10 < 3 * pfBlockSize

\* the in-block offset of call c is below the trigger point the code uses
PfBelowTriggerPoint(c) ==
    PfInBlockOffset(pfBlockSize, c.offset) < PfTriggerPoint(pfBlockSize)

\* an earlier call returned block id
PfReturnedBefore(i, id) == \E j \in 1..(i - 1) : pfCalls[j].out = <<id>>

\* an earlier call computed the candidate id, at or beyond the trigger point
PfComputedBefore(i, id) ==
    \E j \in 1..(i - 1) : ~PfBelowTriggerPoint(pfCalls[j]) /\ PfCandidate(pfCalls[j]) = id

\* C33: Determine(offset, size) returns nothing when the in-block offset is
\* below 0.3 * blockSize; otherwise the candidate is the next block, or block
\* 0 from the last block on, and it is returned by the first call that
\* computes it only; so every block id is returned at most once, also by
\* concurrent calls, and lies in 0..GetLastBlockID(size).
C33_DetermineOnce ==
    \A i \in 1..Len(pfCalls) :
        LET c == pfCalls[i]
        IN  /\ PfBelowRatio(c) => c.out = <<>>
            /\ ~PfBelowRatio(c) =>
                    c.out = IF PfReturnedBefore(i, PfCandidate(c))
                            THEN <<>> ELSE <<PfCandidate(c)>>
            /\ c.out # <<>> =>
                    /\ c.out[1] \in 0..PfLastBlockID(pfBlockSize, pfSize)
                    /\ ~PfReturnedBefore(i, c.out[1])

\* what the code does keep: the same with the trigger point of the code, the
\* whole part of 0.3 * blockSize; the block returned is block 0 or a block
\* up to the last one (GetLastBlockID(0) is -1 when blockSize is 1)
PfDetermineOnceFromTriggerPoint ==
    \A i \in 1..Len(pfCalls) :
        LET c == pfCalls[i]
        IN  /\ PfBelowTriggerPoint(c) => c.out = <<>>
            /\ ~PfBelowTriggerPoint(c) =>
                    c.out = IF PfComputedBefore(i, PfCandidate(c))
                            THEN <<>> ELSE <<PfCandidate(c)>>
            /\ c.out # <<>> =>
                    /\ c.out[1] \in 0..Max(0, PfLastBlockID(pfBlockSize, pfSize))
                    /\ ~PfReturnedBefore(i, c.out[1])
                    /\ c.out[1] \in pfMap

\* a call below 0.3 * blockSize and not below the trigger point of the code
\* has returned a block
PfReturnedBelowRatio ==
    \E i \in 1..Len(pfCalls) : PfBelowRatio(pfCalls[i]) /\ pfCalls[i].out # <<>>

----------------------------------------------------------------------------
(* Claims about AsyncWriter over a RAMBuffer                               *)

\* the keys that were queued, or are about to be, and that the worker has not
\* yet dealt with
OwPending ==
    Len(owQueue) + (IF owWorker.pc = "recv" THEN 0 ELSE 1)
                 + (IF owCaller.pc = "send" THEN 1 ELSE 0)

\* C37: the counter of pending tasks goes down once for every queued key,
\* also when the write of the key failed or its entry could not be popped:
\* the counter is the number of keys the worker has not yet dealt with, so
\* that Flush returns when every queued write has been attempted.
C37_EveryKeyDoneOnce == owTasks = OwPending

\* what the code does keep: Done() is called once for every write that the
\* file handle accepted, and the counter stays above the keys not yet dealt
\* with by one for every error recorded
OwDoneOncePerWrite ==
    /\ owDone = Len(owInner)
    /\ owTasks = OwPending + owErrors
    /\ owTasks = owQueued + (IF owCaller.pc = "send" THEN 1 ELSE 0) - owDone

\* Flush waits, the queue is empty and the worker waits for a key, and the
\* counter is not zero: Flush does not return
OwFlushStuck ==
    /\ owCaller.pc = "flush"
    /\ owQueue = <<>> /\ owWorker.pc = "recv"
    /\ owTasks > 0

\* the same without any failed write: two writes at one offset are enough
OwFlushStuckWithoutFailure == OwFlushStuck /\ ~owFaulty

=============================================================================
